---- MODULE Spec2Model ----
(***************************************************************************)
(* Build command orchestration of XcodeBuildMCP (src/utils/build-utils.ts):*)
(* executeXcodeBuildCommand, the xcbeautify availability cache and the     *)
(* xcodemake incremental path, as a state machine whose steps are the      *)
(* synchronous stretches of code between two awaits.                       *)
(***************************************************************************)
EXTENDS Integers, Sequences, FiniteSets, TLC

VARIABLES
    cachedXcbeautifyAvailable, \* module-level cache: "undefined" | "true" | "false"
    env,                       \* process.env: [buildOutput, test]
    pc,                        \* position of the executeXcodeBuildCommand call
    args,                      \* its arguments
    loc,                       \* its locals
    response,                  \* the ToolResponse it resolved to (or NoResponse)
    logs,                      \* log() calls of the call, in order
    calls,                     \* executor / make / xcodemake invocations of the call, in order
    nCalls,                    \* number of executeXcodeBuildCommand calls started
    prober,                    \* a standalone isXcbeautifyAvailable caller
    nProbeCalls,               \* number of standalone isXcbeautifyAvailable calls started
    nResets,                   \* number of resetXcbeautifyCache calls
    epoch,                     \* history of the cache since it was last emptied
    renderModes,               \* history: the output modes read at line 153 so far
    run                        \* a build-and-run pipeline (build_run_simLogic, buildRunMacOSLogic)

vars == <<cachedXcbeautifyAvailable, env, pc, args, loc, response, logs, calls,
          nCalls, prober, nProbeCalls, nResets, epoch, renderModes, run>>

----------------------------------------------------------------------------
(* Bounds *)

MaxCalls == 2
MaxProbeCalls == 2
MaxResets == 1

\* longest stdout and stderr texts (in lines) the classifier is run on
MaxLines == 3

MaxStderrLines == 2

----------------------------------------------------------------------------
(* Values *)

Undefined == "<undefined>"

Truthy(s) == s # Undefined /\ s # ""

UndefinedExitCode == 0 - 1

McpErrorExitCode == 64

SimulatorPlatforms ==
    {"iOS Simulator", "watchOS Simulator", "tvOS Simulator", "visionOS Simulator"}

DevicePlatforms == {"iOS", "watchOS", "tvOS", "visionOS"}

XcodePlatform == SimulatorPlatforms \cup DevicePlatforms \cup {"macOS"}

SpawnErrorCodes == {"ENOENT", "EACCES", "EPERM"}

\* Thrown values: an Error with a code, an Error without code, and values that
\* are not an Error (with or without a code property).
Thrown ==
    [isError : {TRUE}, code : SpawnErrorCodes \cup {"EOTHER", Undefined},
     message : {"Network error"}]
        \cup [isError : {FALSE}, code : {"ENOENT", Undefined}, message : {"Network error"}]

----------------------------------------------------------------------------
(* Text: a line is a sequence of tokens, a text the sequence of its lines  *)
(* (what split('\n') yields, so never empty).                              *)

Whitespace == {" "}

WarningMarkers == {"warning:", "WARNING:"}

ErrorMarkers == {"error:", "Error:"}

StderrPrefix == "[stderr] "

RECURSIVE TrimStart(_)
TrimStart(line) ==
    IF line # <<>> /\ Head(line) \in Whitespace THEN TrimStart(Tail(line)) ELSE line

RECURSIVE TrimEnd(_)
TrimEnd(line) ==
    IF line # <<>> /\ line[Len(line)] \in Whitespace
    THEN TrimEnd(SubSeq(line, 1, Len(line) - 1))
    ELSE line

Trim(line) == TrimEnd(TrimStart(line))

\* HasWarningMarker matching the lower-case marker only
HasWarningMarkerCaseSensitive(line) == \E i \in 1..Len(line) : line[i] = "warning:"

HasWarningMarker(line) == \E i \in 1..Len(line) : line[i] \in WarningMarkers

HasErrorMarker(line) == \E i \in 1..Len(line) : line[i] \in ErrorMarkers

SeqContains(s, x) == \E i \in 1..Len(s) : s[i] = x

RECURSIVE dedupeFrom(_, _)
dedupeFrom(lines, result) ==
    IF lines = <<>> THEN result
    ELSE LET trimmed == Trim(Head(lines)) IN
         IF trimmed = <<>> \/ SeqContains(result, trimmed)
         THEN dedupeFrom(Tail(lines), result)
         ELSE dedupeFrom(Tail(lines), Append(result, trimmed))

\* dedupeLines that trims and drops empty lines but keeps repeated ones
dedupeLinesKeepingRepeats(lines) ==
    SelectSeq([i \in 1..Len(lines) |-> Trim(lines[i])], LAMBDA line : line # <<>>)

dedupeLines(lines) == dedupeFrom(lines, <<>>)

RECURSIVE SelectLines(_, _)
SelectLines(lines, type) ==
    IF lines = <<>> THEN <<>>
    ELSE IF Head(lines).type = type
         THEN <<Head(lines).content>> \o SelectLines(Tail(lines), type)
         ELSE SelectLines(Tail(lines), type)

RECURSIVE grepWarningsAndErrors(_)
grepWarningsAndErrors(text) ==
    IF text = <<>> THEN <<>>
    ELSE LET content == Head(text) IN
         (IF HasWarningMarker(content) THEN <<[type |-> "warning", content |-> content]>>
          ELSE IF HasErrorMarker(content) THEN <<[type |-> "error", content |-> content]>>
          ELSE <<>>)
         \o grepWarningsAndErrors(Tail(text))

RECURSIVE StderrLines(_)
StderrLines(text) ==
    IF text = <<>> THEN <<>>
    ELSE LET line == Trim(Head(text)) IN
         (IF line = <<>> THEN <<>> ELSE <<<<StderrPrefix>> \o line>>)
         \o StderrLines(Tail(text))

\* result.error is optional: NoStderr stands for undefined (a text has at least one line)
NoStderr == <<>>

ErrorText(error) == IF error = NoStderr THEN <<<<>>>> ELSE error

Warnings(output) == dedupeLines(SelectLines(grepWarningsAndErrors(output), "warning"))

ErrorsFromStdout(output) == dedupeLines(SelectLines(grepWarningsAndErrors(output), "error"))

ErrorsFromStderr(error) == dedupeLines(StderrLines(ErrorText(error)))

\* Errors with the stderr-derived lines before the stdout-derived ones
ErrorsStderrFirst(output, error) ==
    dedupeLines(ErrorsFromStderr(error) \o ErrorsFromStdout(output))

Errors(output, error) == dedupeLines(ErrorsFromStdout(output) \o ErrorsFromStderr(error))

InstallPromptLine == <<"xcbeautify install prompt">>

----------------------------------------------------------------------------
(* Arguments.  An argv element (and a path) is a sequence of string parts. *)

Lit(s) == <<s>>

Dirname(p) == IF Len(p) > 1 THEN SubSeq(p, 1, Len(p) - 1) ELSE <<".">>

\* an unset path and the empty string are both falsy; both are the empty sequence
NoPath == <<>>

PathTruthy(p) == p # NoPath

\* constructDestinationString(platform, simulatorName, simulatorId, useLatest = true, arch)
constructDestinationString(platform, simulatorName, simulatorId, useLatest, arch) ==
    IF platform \in SimulatorPlatforms /\ Truthy(simulatorId)
    THEN <<"platform=", platform, ",id=", simulatorId>>
    ELSE IF platform \in SimulatorPlatforms /\ Truthy(simulatorName)
    THEN <<"platform=", platform, ",name=", simulatorName>>
         \o (IF useLatest # "false" THEN <<",OS=latest">> ELSE <<>>)
    ELSE IF platform = "macOS"
    THEN <<"platform=", platform>> \o (IF Truthy(arch) THEN <<",arch=", arch>> ELSE <<>>)
    ELSE <<"generic/platform=", platform>>

isSimulatorPlatform(po) == po.platform \in SimulatorPlatforms

\* ResolveDestination testing the selectors against undefined instead of for truthiness
ResolveDestinationDefinedOnly(po) ==
    IF isSimulatorPlatform(po)
    THEN IF po.simulatorId # Undefined
         THEN [ok |-> TRUE, kind |-> "resolved",
               dest |-> <<"platform=", po.platform, ",id=", po.simulatorId>>]
         ELSE IF po.simulatorName # Undefined
         THEN [ok |-> TRUE, kind |-> "resolved",
               dest |-> <<"platform=", po.platform, ",name=", po.simulatorName>>]
         ELSE [ok |-> FALSE, kind |-> "selectorRequired", dest |-> <<>>]
    ELSE [ok |-> TRUE, kind |-> "resolved", dest |-> <<"generic/platform=", po.platform>>]

\* ResolveDestination leaving useLatestOS out of the by-name call
ResolveDestinationDefaultLatest(po) ==
    IF isSimulatorPlatform(po)
    THEN IF Truthy(po.simulatorId)
         THEN [ok |-> TRUE, kind |-> "resolved",
               dest |-> constructDestinationString(po.platform, Undefined, po.simulatorId,
                                                   Undefined, Undefined)]
         ELSE IF Truthy(po.simulatorName)
         THEN [ok |-> TRUE, kind |-> "resolved",
               dest |-> constructDestinationString(po.platform, po.simulatorName, Undefined,
                                                   Undefined, Undefined)]
         ELSE [ok |-> FALSE, kind |-> "selectorRequired", dest |-> <<>>]
    ELSE IF po.platform = "macOS"
    THEN [ok |-> TRUE, kind |-> "resolved",
          dest |-> constructDestinationString(po.platform, Undefined, Undefined,
                                              "false", po.arch)]
    ELSE IF po.platform \in DevicePlatforms
    THEN [ok |-> TRUE, kind |-> "resolved",
          dest |-> IF Truthy(po.deviceId)
                   THEN <<"platform=", po.platform, ",id=", po.deviceId>>
                   ELSE <<"generic/platform=", po.platform>>]
    ELSE [ok |-> FALSE, kind |-> "unsupportedPlatform", dest |-> <<>>]

\* "ok" with the destination string, or the early return of lines 249 and 287
ResolveDestination(po) ==
    IF isSimulatorPlatform(po)
    THEN IF Truthy(po.simulatorId)
         THEN [ok |-> TRUE, kind |-> "resolved",
               dest |-> constructDestinationString(po.platform, Undefined, po.simulatorId,
                                                   Undefined, Undefined)]
         ELSE IF Truthy(po.simulatorName)
         THEN [ok |-> TRUE, kind |-> "resolved",
               dest |-> constructDestinationString(po.platform, po.simulatorName, Undefined,
                                                   po.useLatestOS, Undefined)]
         ELSE [ok |-> FALSE, kind |-> "selectorRequired", dest |-> <<>>]
    ELSE IF po.platform = "macOS"
    THEN [ok |-> TRUE, kind |-> "resolved",
          dest |-> constructDestinationString(po.platform, Undefined, Undefined,
                                              "false", po.arch)]
    ELSE IF po.platform \in DevicePlatforms
    THEN [ok |-> TRUE, kind |-> "resolved",
          dest |-> IF Truthy(po.deviceId)
                   THEN <<"platform=", po.platform, ",id=", po.deviceId>>
                   ELSE <<"generic/platform=", po.platform>>]
    ELSE [ok |-> FALSE, kind |-> "unsupportedPlatform", dest |-> <<>>]

projectDirOf(params) ==
    IF PathTruthy(params.workspacePath) THEN Dirname(params.workspacePath)
    ELSE IF PathTruthy(params.projectPath) THEN Dirname(params.projectPath)
    ELSE <<>>

\* BuildCommand taking the project before the workspace
BuildCommandProjectFirst(params, dest, buildAction) ==
    <<Lit("xcodebuild")>>
    \o (IF PathTruthy(params.projectPath)
        THEN <<Lit("-project"), params.projectPath>>
        ELSE IF PathTruthy(params.workspacePath)
        THEN <<Lit("-workspace"), params.workspacePath>>
        ELSE <<>>)
    \o <<Lit("-scheme"), Lit(params.scheme)>>
    \o <<Lit("-configuration"), Lit(params.configuration)>>
    \o <<Lit("-skipMacroValidation")>>
    \o <<Lit("-destination"), dest>>
    \o (IF PathTruthy(params.derivedDataPath)
        THEN <<Lit("-derivedDataPath"), params.derivedDataPath>>
        ELSE <<>>)
    \o params.extraArgs
    \o <<Lit(buildAction)>>

\* the argv built by lines 210-300
BuildCommand(params, dest, buildAction) ==
    <<Lit("xcodebuild")>>
    \o (IF PathTruthy(params.workspacePath)
        THEN <<Lit("-workspace"), params.workspacePath>>
        ELSE IF PathTruthy(params.projectPath)
        THEN <<Lit("-project"), params.projectPath>>
        ELSE <<>>)
    \o <<Lit("-scheme"), Lit(params.scheme)>>
    \o <<Lit("-configuration"), Lit(params.configuration)>>
    \o <<Lit("-skipMacroValidation")>>
    \o <<Lit("-destination"), dest>>
    \o (IF PathTruthy(params.derivedDataPath)
        THEN <<Lit("-derivedDataPath"), params.derivedDataPath>>
        ELSE <<>>)
    \o params.extraArgs
    \o <<Lit(buildAction)>>

\* the parts that hold a character of the class tested at line 111
ShellSpecialParts == {" ", ",", "=", "\"", "\\", "platform=", ",id=", ",name=", ",arch=",
                      ",OS=latest", "generic/platform=", "iPhone 16", "iOS Simulator",
                      "watchOS Simulator", "tvOS Simulator", "visionOS Simulator"}

\* the characters escaped at line 114
ShellEscapedParts == {"\"", "\\"}

RECURSIVE shellEscape(_)
shellEscape(arg) ==
    IF arg = <<>> THEN <<>>
    ELSE (IF Head(arg) \in ShellEscapedParts THEN <<"\\", Head(arg)>> ELSE <<Head(arg)>>)
         \o shellEscape(Tail(arg))

AlreadyQuoted(arg) == Len(arg) >= 2 /\ arg[1] = "\"" /\ arg[Len(arg)] = "\""

shellQuote(arg) ==
    IF ~(\E i \in 1..Len(arg) : arg[i] \in ShellSpecialParts) \/ AlreadyQuoted(arg)
    THEN arg
    ELSE <<"\"">> \o shellEscape(arg) \o <<"\"">>

RECURSIVE buildShellCommand(_)
buildShellCommand(argv) ==
    IF argv = <<>> THEN <<>>
    ELSE shellQuote(Head(argv))
         \o (IF Len(argv) > 1 THEN <<" ">> ELSE <<>>)
         \o buildShellCommand(Tail(argv))

getXcbeautifyArgs(quietLevel) ==
    IF quietLevel = 1 THEN <<Lit("xcbeautify"), Lit("-q")>>
    ELSE IF quietLevel = 2 THEN <<Lit("xcbeautify"), Lit("-qq")>>
    ELSE <<Lit("xcbeautify")>>

\* Pipeline without 'set -o pipefail'
PipelineWithoutPipefail(command, quietLevel) ==
    buildShellCommand(command) \o <<" 2>&1 | ">>
    \o buildShellCommand(getXcbeautifyArgs(quietLevel))

Pipeline(command, quietLevel) ==
    <<"set -o pipefail; ">> \o buildShellCommand(command) \o <<" 2>&1 | ">>
    \o buildShellCommand(getXcbeautifyArgs(quietLevel))

ProbeArgv == <<Lit("bash"), Lit("-lc"), Lit("command -v xcbeautify >/dev/null 2>&1")>>

\* invocation records
ProbeCall == [fn |-> "executor", what |-> "probe", argv |-> ProbeArgv, capture |-> FALSE]

PipelineCall(command, quietLevel) ==
    [fn |-> "executor", what |-> "pipeline",
     argv |-> <<Lit("bash"), Lit("-lc"), Pipeline(command, quietLevel)>>, capture |-> FALSE]

RawCall(command) ==
    [fn |-> "executor", what |-> "raw", argv |-> command, capture |-> TRUE]

MakeCall(projectDir) ==
    [fn |-> "executeMakeCommand", what |-> "make", argv |-> <<projectDir>>, capture |-> FALSE]

\* XcodemakeCall passing the whole command, 'xcodebuild' included
XcodemakeCallWholeCommand(projectDir, command) ==
    [fn |-> "executeXcodemakeCommand", what |-> "xcodemake",
     argv |-> <<projectDir>> \o command, capture |-> FALSE]

XcodemakeCall(projectDir, command) ==
    [fn |-> "executeXcodemakeCommand", what |-> "xcodemake",
     argv |-> <<projectDir>> \o Tail(command), capture |-> FALSE]

----------------------------------------------------------------------------
(* Responses *)

Block(kind, arg) == [kind |-> kind, arg |-> arg]

NoResponse == [content |-> <<>>, isError |-> "none"]

\* createTextResponse(message, isError): one text block
createTextResponse(kind, arg, isError) ==
    [content |-> <<Block(kind, arg)>>, isError |-> IF isError THEN "true" ELSE "false"]

\* consolidateContentForClaudeCode outside Claude Code: the response as it is
consolidateContentForClaudeCode(resp) == resp

\* getBuildOutputMode that never selects diagnostics
getBuildOutputModeAlwaysGuided(e) == "guided"

getBuildOutputMode(e) == IF e.buildOutput = "diagnostics" THEN "diagnostics" ELSE "guided"

isTestEnvironment(e) == e.test

RECURSIVE MapBlocks(_, _)
MapBlocks(lines, kind) ==
    IF lines = <<>> THEN <<>>
    ELSE <<Block(kind, <<Head(lines)>>)>> \o MapBlocks(Tail(lines), kind)

RECURSIVE ErrorBlocks(_)
ErrorBlocks(lines) ==
    IF lines = <<>> THEN <<>>
    ELSE <<Block(IF Head(Head(lines)) = StderrPrefix THEN "stderr" ELSE "error",
                 <<Head(lines)>>)>>
         \o ErrorBlocks(Tail(lines))

\* formatDiagnosticsBlocks pushing the warnings section first
formatDiagnosticsBlocksWarningsFirst(warnings, errors) ==
    (IF warnings = <<>> THEN <<>> ELSE <<Block("diagWarnings", warnings)>>)
    \o (IF errors = <<>> THEN <<>> ELSE <<Block("diagErrors", errors)>>)

formatDiagnosticsBlocks(warnings, errors) ==
    (IF errors = <<>> THEN <<>> ELSE <<Block("diagErrors", errors)>>)
    \o (IF warnings = <<>> THEN <<>> ELSE <<Block("diagWarnings", warnings)>>)

LogEntry(level, what, sentry) == [level |-> level, what |-> what, sentry |-> sentry]

----------------------------------------------------------------------------
(* The part of executeXcodeBuildCommand after the build invocation returned *)
(* (lines 360-523).  a: arguments, l: locals, result: the invocation's     *)
(* result, cache: cachedXcbeautifyAvailable as read at line 379.           *)

\* IncrementalActive ignoring preferXcodebuild
IncrementalActiveIgnoringPrefer(a, l) ==
    /\ l.isXcodemakeEnabledFlag
    /\ l.xcodemakeAvailableFlag
    /\ a.buildAction = "build"

IncrementalActive(a, l) ==
    /\ l.isXcodemakeEnabledFlag
    /\ l.xcodemakeAvailableFlag
    /\ a.buildAction = "build"
    /\ ~a.preferXcodebuild

\* ClassifiedWarnings without the shouldUseXcbeautify test of line 379
ClassifiedWarningsInTestEnvToo(l, result, cache) ==
    (IF cache = "false" /\ l.outputMode = "diagnostics"
     THEN <<InstallPromptLine>> ELSE <<>>)
    \o Warnings(result.output)

ClassifiedWarnings(l, result, cache) ==
    (IF l.shouldUseXcbeautify /\ cache = "false" /\ l.outputMode = "diagnostics"
     THEN <<InstallPromptLine>> ELSE <<>>)
    \o Warnings(result.output)

ClassifiedErrors(result) == Errors(result.output, result.error)

\* FinalBuildMessages pushing the error blocks before the warning blocks
FinalBuildMessagesErrorsFirst(l, result, cache) ==
    IF l.outputMode = "guided"
    THEN l.buildMessages
         \o ErrorBlocks(ClassifiedErrors(result))
         \o MapBlocks(ClassifiedWarnings(l, result, cache), "warning")
    ELSE l.buildMessages

FinalBuildMessages(l, result, cache) ==
    IF l.outputMode = "guided"
    THEN l.buildMessages
         \o MapBlocks(ClassifiedWarnings(l, result, cache), "warning")
         \o ErrorBlocks(ClassifiedErrors(result))
    ELSE l.buildMessages

\* SuggestRetry testing the classified lists instead of the stdout matches
SuggestRetryOnClassifiedLists(a, l, result) ==
    /\ l.outputMode = "guided"
    /\ Warnings(result.output) = <<>>
    /\ Errors(result.output, result.error) = <<>>
    /\ IncrementalActive(a, l)

SuggestRetry(a, l, result) ==
    /\ l.outputMode = "guided"
    /\ Len(grepWarningsAndErrors(result.output)) = 0
    /\ IncrementalActive(a, l)

\* FailureLog escalating every exit code from 64 upwards
FailureLogFrom64(result) ==
    LET isMcpError == result.exitCode >= McpErrorExitCode IN
    LogEntry(IF isMcpError THEN "error" ELSE "warning", "build failed",
             IF isMcpError THEN "true" ELSE "false")

FailureLog(result) ==
    LET isMcpError == result.exitCode = McpErrorExitCode IN
    LogEntry(IF isMcpError THEN "error" ELSE "warning", "build failed", 
             IF isMcpError THEN "true" ELSE "false")

OutcomeArg(a) == <<<<a.platformOptions.logPrefix, a.buildAction, a.params.scheme>>>>

\* ErrorResponse flagging the failure only for a defined, non-zero exit code
ErrorResponseFlagByExitCode(a, l, result, cache) ==
    LET warnings == ClassifiedWarnings(l, result, cache)
        errors == ClassifiedErrors(result)
        buildMessages == FinalBuildMessages(l, result, cache)
        base == IF l.outputMode = "diagnostics"
                THEN formatDiagnosticsBlocks(warnings, errors)
                     \o <<Block("failed", OutcomeArg(a))>>
                ELSE createTextResponse("failed", OutcomeArg(a), TRUE).content
        withMessages == IF l.outputMode = "guided" /\ Len(buildMessages) > 0
                        THEN buildMessages \o base ELSE base
    IN  consolidateContentForClaudeCode(
            [content |-> withMessages
                         \o (IF SuggestRetry(a, l, result)
                             THEN <<Block("retrySuggestion", <<>>)>> ELSE <<>>),
             isError |-> IF result.exitCode > 0 THEN "true" ELSE "false"])

ErrorResponse(a, l, result, cache) ==
    LET warnings == ClassifiedWarnings(l, result, cache)
        errors == ClassifiedErrors(result)
        buildMessages == FinalBuildMessages(l, result, cache)
        base == IF l.outputMode = "diagnostics"
                THEN formatDiagnosticsBlocks(warnings, errors)
                     \o <<Block("failed", OutcomeArg(a))>>
                ELSE createTextResponse("failed", OutcomeArg(a), TRUE).content
        withMessages == IF l.outputMode = "guided" /\ Len(buildMessages) > 0
                        THEN buildMessages \o base ELSE base
    IN  consolidateContentForClaudeCode(
            [content |-> withMessages
                         \o (IF SuggestRetry(a, l, result)
                             THEN <<Block("retrySuggestion", <<>>)>> ELSE <<>>),
             isError |-> "true"])

XcodemakeNote == <<"xcodemake: Using faster incremental builds with xcodemake">>

additionalInfo(a, l) ==
    LET po == a.platformOptions
        note == IF IncrementalActive(a, l) THEN XcodemakeNote ELSE <<>>
    IN  IF a.buildAction = "build"
        THEN IF po.platform = "macOS"
             THEN <<"Next Steps", "get_mac_app_path", a.params.scheme>>
             ELSE IF po.platform = "iOS"
             THEN <<"Next Steps", "get_device_app_path", a.params.scheme>>
             ELSE IF isSimulatorPlatform(po)
             THEN <<"Next Steps", "get_sim_app_path",
                    IF Truthy(po.simulatorId) THEN "simulatorId" ELSE "simulatorName",
                    IF po.simulatorId # Undefined THEN po.simulatorId ELSE po.simulatorName,
                    a.params.scheme>>
             ELSE note
        ELSE note

SuccessResponse(a, l, result, cache) ==
    LET warnings == ClassifiedWarnings(l, result, cache)
        errors == ClassifiedErrors(result)
        buildMessages == FinalBuildMessages(l, result, cache)
        info == additionalInfo(a, l)
        base == IF l.outputMode = "diagnostics"
                THEN [content |-> IF warnings = <<>> /\ errors = <<>>
                                  THEN <<Block("succeededNoIssues", OutcomeArg(a))>>
                                  ELSE formatDiagnosticsBlocks(warnings, errors)
                                       \o <<Block("succeeded", OutcomeArg(a))>>,
                      isError |-> "false"]
                ELSE [content |-> buildMessages \o <<Block("succeeded", OutcomeArg(a))>>,
                      isError |-> Undefined]
    IN  consolidateContentForClaudeCode(
            [base EXCEPT !.content =
                @ \o (IF l.outputMode = "guided" /\ info # <<>>
                      THEN <<Block("additionalInfo", <<info>>)>> ELSE <<>>)])

\* the catch block, lines 524-542
\* isSpawnError without the instanceof Error test
isSpawnErrorAnyValue(thrown) == thrown.code \in SpawnErrorCodes

isSpawnError(thrown) == thrown.isError /\ thrown.code \in SpawnErrorCodes

CatchLog(thrown) ==
    LogEntry("error", "error during build", IF isSpawnError(thrown) THEN "false" ELSE "true")

CatchResponse(a, thrown) ==
    consolidateContentForClaudeCode(
        createTextResponse("errorDuring",
                           <<<<a.platformOptions.logPrefix, a.buildAction, thrown.message>>>>,
                           TRUE))

----------------------------------------------------------------------------
(* Inputs *)

ParamsSet ==
    { [projectPath |-> <<"/path/to", "/MyProject.xcodeproj">>, workspacePath |-> NoPath,
       scheme |-> "MyScheme", configuration |-> "Debug",
       derivedDataPath |-> NoPath, extraArgs |-> <<>>],
      [projectPath |-> NoPath, workspacePath |-> <<"/ws", "/App.xcworkspace">>,
       scheme |-> "S", configuration |-> "Release",
       derivedDataPath |-> <<"/dd">>,
       extraArgs |-> <<Lit("-quiet"), <<"OTHER_SWIFT_FLAGS", "=", "\"", "-DX", "\"">>>>] }

PlatformOptions(platform, logPrefix, simulatorId, simulatorName, useLatestOS, arch, deviceId) ==
    [platform |-> platform, logPrefix |-> logPrefix, simulatorId |-> simulatorId,
     simulatorName |-> simulatorName, useLatestOS |-> useLatestOS, arch |-> arch,
     deviceId |-> deviceId, quietLevel |-> 0]

PlatformOptionsSet ==
    { PlatformOptions("macOS", "macOS Build", Undefined, Undefined, Undefined, Undefined, Undefined),
      [PlatformOptions("macOS", "macOS Build", Undefined, Undefined, Undefined, Undefined,
                       Undefined) EXCEPT !.quietLevel = 1],
      [PlatformOptions("iOS", "iOS Device Build", Undefined, Undefined, Undefined, Undefined,
                       Undefined) EXCEPT !.quietLevel = 2],
      PlatformOptions("iOS", "iOS Device Build", Undefined, Undefined, Undefined, Undefined, Undefined),
      PlatformOptions("iOS Simulator", "iOS Simulator Build", "SIM-UUID", Undefined, Undefined,
                      Undefined, Undefined),
      PlatformOptions("iOS Simulator", "iOS Simulator Build", Undefined, "iPhone 16", Undefined,
                      Undefined, Undefined),
      PlatformOptions("iOS Simulator", "iOS Simulator Build", Undefined, Undefined, Undefined,
                      Undefined, Undefined),
      PlatformOptions("watchOS Simulator", "watchOS Simulator Build", "", "", Undefined,
                      Undefined, Undefined),
      PlatformOptions("watchOS", "watchOS Build", Undefined, Undefined, Undefined, Undefined,
                      "WATCH-UDID"),
      PlatformOptions("iOS Simulator", "iOS Simulator Build", "", "iPhone 16", Undefined,
                      Undefined, Undefined),
      PlatformOptions("iOS Simulator", "iOS Simulator Build", "SIM-UUID", "iPhone 16", "false",
                      Undefined, Undefined),
      PlatformOptions("Android", "Build", Undefined, Undefined, Undefined, Undefined, Undefined) }

BuildActions == {"build", "clean", "test"}

OutputPlain == <<<<"BUILD", " ", "SUCCEEDED">>>>

OutputMixed ==
    <<<<" ", "a.swift", "warning:", "unused">>, <<"a.swift", "warning:", "unused", " ">>,
      <<"b.swift", "error:", "missing">>>>

OutputBoth == <<<<"c.swift", "WARNING:", "Error:", "both">>>>

Outputs == {OutputPlain, OutputMixed, OutputBoth}

Stderrs == { NoStderr, <<<<"Compilation", " ", "error">>, <<>>>> }

ExitCodes == {UndefinedExitCode, 0, 1, McpErrorExitCode, 65}

Results == [success : BOOLEAN, output : Outputs, error : Stderrs, exitCode : ExitCodes]

Envs == [buildOutput : {Undefined, "diagnostics"}, test : BOOLEAN]

----------------------------------------------------------------------------
(* State *)

NoArgs ==
    [params |-> CHOOSE x \in ParamsSet : x.extraArgs = <<>>,
     platformOptions |-> CHOOSE x \in PlatformOptionsSet :
                            x.platform = "macOS" /\ x.quietLevel = 0,
     preferXcodebuild |-> FALSE, buildAction |-> "build"]

NoResult == [success |-> FALSE, output |-> <<>>, error |-> NoStderr,
             exitCode |-> UndefinedExitCode]

NoThrown == [isError |-> FALSE, code |-> Undefined, message |-> ""]

NoLocals ==
    [outputMode |-> "guided", shouldUseXcbeautify |-> FALSE,
     isXcodemakeEnabledFlag |-> FALSE, xcodemakeAvailableFlag |-> FALSE,
     buildMessages |-> <<>>, command |-> <<>>, projectDir |-> <<>>,
     makefileExists |-> FALSE, makeLogFileExists |-> FALSE,
     xcbeautifyAvailable |-> FALSE, outcome |-> "none", result |-> NoResult,
     warnings |-> <<>>, errors |-> <<>>, thrown |-> NoThrown]

\* a build-and-run pipeline: the step it awaits, the steps it started with
\* their outcomes, what it learnt on the way, and the response it returned
NoRun ==
    [pc |-> "idle", logic |-> "none", steps |-> <<>>, simState |-> Undefined,
     bundleId |-> "", response |-> NoResponse]

FreshEpoch(inFlight) ==
    [calls |-> 0, execs |-> 0, overlap |-> inFlight, first |-> Undefined,
     firstOutcome |-> Undefined, consistent |-> TRUE]

Init ==
    /\ cachedXcbeautifyAvailable = "undefined"
    /\ env \in Envs
    /\ pc = "idle"
    /\ args = NoArgs
    /\ loc = NoLocals
    /\ response = NoResponse
    /\ logs = <<>>
    /\ calls = <<>>
    /\ nCalls = 0
    /\ prober = [pc |-> "idle", result |-> Undefined]
    /\ nProbeCalls = 0
    /\ nResets = 0
    /\ epoch = FreshEpoch(FALSE)
    /\ renderModes = {}
    /\ run = NoRun

----------------------------------------------------------------------------
(* History of isXcbeautifyAvailable calls since the cache was last empty   *)

\* a call starts; probed: it invoked the executor
EpochCallStart(e, otherInFlight, probed) ==
    [e EXCEPT !.calls = @ + 1,
              !.overlap = @ \/ otherInFlight,
              !.execs = IF probed THEN @ + 1 ELSE @]

\* a call returns r; how: "cached", or the outcome of its probe
EpochCallEnd(e, r, how) ==
    [e EXCEPT !.first = IF @ = Undefined THEN r ELSE @,
              !.firstOutcome = IF e.first = Undefined THEN how ELSE @,
              !.consistent = @ /\ (e.first = Undefined \/ e.first = r)]

----------------------------------------------------------------------------
(* isXcbeautifyAvailable, lines 90-108 *)

\* CacheHit for a positive result only
CacheHitWhenTrue(cache) == cache = "true"

\* line 94
CacheHit(cache) == cache # "undefined"

ProbeOutcomes == {"success", "failure", "throw"}

\* lines 102-106: the value cached and returned after the probe settled
ProbeResult(outcome) == IF outcome = "success" THEN "true" ELSE "false"

----------------------------------------------------------------------------
(* executeXcodeBuildCommand, lines 145-543 *)

\* IssueBuild running the raw command after the pipeline as well
IssueBuildTwice(a, l, xcAvail) ==
    /\ loc' = [l EXCEPT !.xcbeautifyAvailable = xcAvail]
    /\ calls' = calls \o (IF xcAvail
                          THEN <<PipelineCall(l.command, a.platformOptions.quietLevel)>>
                          ELSE <<>>)
                      \o <<RawCall(l.command)>>
    /\ pc' = "awaitBuild"
    /\ response' = response

\* lines 350-357: the build through the injected executor
IssueBuild(a, l, xcAvail) ==
    LET msgs == IF l.shouldUseXcbeautify /\ ~xcAvail /\ l.outputMode = "guided"
                THEN Append(l.buildMessages, Block("installPrompt", <<>>))
                ELSE l.buildMessages
    IN  /\ loc' = [l EXCEPT !.buildMessages = msgs, !.xcbeautifyAvailable = xcAvail]
        /\ calls' = Append(calls, IF xcAvail
                                  THEN PipelineCall(l.command, a.platformOptions.quietLevel)
                                  ELSE RawCall(l.command))
        /\ pc' = "awaitBuild"
        /\ response' = response

\* lines 304-337: the incremental path
IssueIncremental(a, l, lg) ==
    \E makefileExists \in BOOLEAN, makeLogFileExists \in BOOLEAN :
        LET l2 == [l EXCEPT !.makefileExists = makefileExists,
                            !.makeLogFileExists = makeLogFileExists] IN
        /\ IF makefileExists /\ makeLogFileExists
           THEN /\ loc' = [l2 EXCEPT !.buildMessages = Append(@, Block("usingMake", <<>>))]
                /\ calls' = Append(calls, MakeCall(l.projectDir))
           ELSE /\ loc' = [l2 EXCEPT !.buildMessages =
                                         Append(@, Block("generatingMakefile", <<>>))]
                /\ calls' = Append(calls, XcodemakeCall(l.projectDir, l.command))
        /\ logs' = lg \o <<LogEntry("debug", "Makefile exists", Undefined),
                           LogEntry("debug", "Makefile log exists", Undefined)>>
        /\ pc' = "awaitBuild"
        /\ response' = response
        /\ UNCHANGED <<cachedXcbeautifyAvailable, epoch>>

\* lines 339-341: isXcbeautifyAvailable(executor) called on the direct path
IssueDirect(a, l, lg) ==
    /\ logs' = lg
    /\ UNCHANGED cachedXcbeautifyAvailable
    /\ IF ~l.shouldUseXcbeautify
       THEN IssueBuild(a, l, FALSE) /\ UNCHANGED epoch
       ELSE IF CacheHit(cachedXcbeautifyAvailable)
       THEN /\ IssueBuild(a, l, cachedXcbeautifyAvailable = "true")
            /\ epoch' = EpochCallEnd(EpochCallStart(epoch, prober.pc = "awaiting", FALSE),
                                     cachedXcbeautifyAvailable, "cached")
       ELSE /\ loc' = l
            /\ calls' = Append(calls, ProbeCall)
            /\ pc' = "awaitProbe"
            /\ response' = response
            /\ epoch' = EpochCallStart(epoch, prober.pc = "awaiting", TRUE)

\* lines 209-358: the try block up to the first await in it; lg is the log
\* so far.  The caller sets args' and nCalls'.
EnterTry(a, l, lg) ==
    LET res == ResolveDestination(a.platformOptions)
        command == BuildCommand(a.params, res.dest, a.buildAction)
        l2 == [l EXCEPT !.command = command, !.projectDir = projectDirOf(a.params)]
    IN  IF ~res.ok
        THEN /\ response' = createTextResponse(res.kind,
                                               <<<<a.platformOptions.platform>>>>, TRUE)
             /\ pc' = "done"
             /\ loc' = [l EXCEPT !.outcome = "destination"]
             /\ UNCHANGED <<calls, cachedXcbeautifyAvailable, epoch>>
             /\ logs' = lg
        ELSE IF IncrementalActive(a, l)
        THEN IssueIncremental(a, l2, lg)
        ELSE IssueDirect(a, l2, lg)

\* lines 153-207 up to the first await: the call itself
ExecuteXcodeBuildCommandFrom(PS, POS, AS) ==
    /\ pc = "idle"
    /\ nCalls < MaxCalls
    /\ \E params \in PS, po \in POS, preferXcodebuild \in BOOLEAN,
          buildAction \in AS, enabled \in {"true", "false", "throw"} :
        LET a == [params |-> params, platformOptions |-> po,
                  preferXcodebuild |-> preferXcodebuild, buildAction |-> buildAction]
            l == [NoLocals EXCEPT !.outputMode = getBuildOutputMode(env),
                                  !.shouldUseXcbeautify = ~isTestEnvironment(env),
                                  !.isXcodemakeEnabledFlag = (enabled = "true")]
            lg == <<LogEntry("info", "Starting", Undefined)>>
        IN  /\ args' = a
            /\ nCalls' = nCalls + 1
            /\ IF enabled = "throw"
               THEN \E thrown \in Thrown :
                       /\ pc' = "rejected"
                       /\ loc' = [l EXCEPT !.outcome = "rejected", !.thrown = thrown]
                       /\ logs' = lg
                       /\ UNCHANGED <<response, calls, cachedXcbeautifyAvailable, epoch>>
               ELSE IF enabled = "true" /\ buildAction = "build"
               THEN /\ pc' = "awaitXcodemakeAvailable"
                    /\ loc' = l
                    /\ logs' = lg
                    /\ UNCHANGED <<response, calls, cachedXcbeautifyAvailable, epoch>>
               ELSE EnterTry(a, l, lg)
    /\ renderModes' = renderModes \cup {getBuildOutputMode(env)}
    /\ UNCHANGED <<env, prober, nProbeCalls, nResets>>

\* executeXcodeBuildCommand called directly, outside a build-and-run pipeline
ExecuteXcodeBuildCommandOn(PS, POS, AS) ==
    /\ ExecuteXcodeBuildCommandFrom(PS, POS, AS)
    /\ UNCHANGED run

\* XcodemakeAvailableReturns without the preferXcodebuild branch of line 179
XcodemakeAvailableReturnsPreferUnchecked ==
    /\ pc = "awaitXcodemakeAvailable"
    /\ \E available \in BOOLEAN :
        LET guided == loc.outputMode = "guided"
            kind == IF ~available THEN "notAvailable" ELSE "usingXcodemake"
            l == [loc EXCEPT !.xcodemakeAvailableFlag = available,
                             !.buildMessages = IF guided THEN Append(@, Block(kind, <<>>))
                                               ELSE @]
        IN  EnterTry(args, l, Append(logs, LogEntry("info", kind, Undefined)))
    /\ UNCHANGED <<env, renderModes, run, args, nCalls, prober, nProbeCalls, nResets>>

\* lines 177-207: isXcodemakeAvailable() settles
XcodemakeAvailableReturns ==
    /\ pc = "awaitXcodemakeAvailable"
    /\ \E available \in BOOLEAN :
        LET guided == loc.outputMode = "guided"
            kind == IF available /\ args.preferXcodebuild THEN "preferFallback"
                    ELSE IF ~available THEN "notAvailable"
                    ELSE "usingXcodemake"
            l == [loc EXCEPT !.xcodemakeAvailableFlag = available,
                             !.buildMessages = IF guided THEN Append(@, Block(kind, <<>>))
                                               ELSE @]
        IN  EnterTry(args, l, Append(logs, LogEntry("info", kind, Undefined)))
    /\ UNCHANGED <<env, renderModes, run, args, nCalls, prober, nProbeCalls, nResets>>

\* line 177 rejects: the await is outside the try block
XcodemakeAvailableThrows ==
    /\ pc = "awaitXcodemakeAvailable"
    /\ \E thrown \in Thrown :
        /\ pc' = "rejected"
        /\ loc' = [loc EXCEPT !.outcome = "rejected", !.thrown = thrown]
    /\ UNCHANGED <<cachedXcbeautifyAvailable, env, renderModes, run, args, response, logs, calls, nCalls,
                   prober, nProbeCalls, nResets, epoch>>

\* lines 96-107 then 343-357: the probe of the call's isXcbeautifyAvailable settles
ProbeReturns ==
    /\ pc = "awaitProbe"
    /\ \E outcome \in ProbeOutcomes :
        /\ cachedXcbeautifyAvailable' = ProbeResult(outcome)
        /\ epoch' = EpochCallEnd(epoch, ProbeResult(outcome), outcome)
        /\ IssueBuild(args, loc, ProbeResult(outcome) = "true")
    /\ UNCHANGED <<env, renderModes, run, args, logs, nCalls, prober, nProbeCalls, nResets>>

\* lines 360-523: the build invocation returns a result
BuildReturnsOn(RS) ==
    /\ pc = "awaitBuild"
    /\ \E result \in RS :
        /\ loc' = [loc EXCEPT !.outcome = "returned", !.result = result,
                              !.warnings = ClassifiedWarnings(loc, result,
                                                              cachedXcbeautifyAvailable),
                              !.errors = ClassifiedErrors(result)]
        /\ IF ~result.success
           THEN /\ logs' = Append(logs, FailureLog(result))
                /\ response' = ErrorResponse(args, loc, result, cachedXcbeautifyAvailable)
           ELSE /\ logs' = Append(logs, LogEntry("info", "succeeded", Undefined))
                /\ response' = SuccessResponse(args, loc, result, cachedXcbeautifyAvailable)
    /\ pc' = "done"
    /\ UNCHANGED <<cachedXcbeautifyAvailable, env, renderModes, run, args, calls, nCalls, prober,
                   nProbeCalls, nResets, epoch>>

\* lines 524-542: the build invocation throws
BuildThrows ==
    /\ pc = "awaitBuild"
    /\ \E thrown \in Thrown :
        /\ loc' = [loc EXCEPT !.outcome = "threw", !.thrown = thrown]
        /\ logs' = Append(logs, CatchLog(thrown))
        /\ response' = CatchResponse(args, thrown)
    /\ pc' = "done"
    /\ UNCHANGED <<cachedXcbeautifyAvailable, env, renderModes, run, args, calls, nCalls, prober,
                   nProbeCalls, nResets, epoch>>

\* the caller has taken the outcome; the next request may start
Settle ==
    /\ pc \in {"done", "rejected"}
    /\ pc' = "idle"
    /\ args' = NoArgs
    /\ loc' = NoLocals
    /\ response' = NoResponse
    /\ logs' = <<>>
    /\ calls' = <<>>
    /\ UNCHANGED <<cachedXcbeautifyAvailable, env, renderModes, run, nCalls, prober, nProbeCalls, nResets,
                   epoch>>

----------------------------------------------------------------------------
(* isXcbeautifyAvailable called on its own, and resetXcbeautifyCache       *)

\* lines 90-101
ProberCalls ==
    /\ prober.pc = "idle"
    /\ nProbeCalls < MaxProbeCalls
    /\ nProbeCalls' = nProbeCalls + 1
    /\ IF CacheHit(cachedXcbeautifyAvailable)
       THEN /\ prober' = [pc |-> "idle", result |-> cachedXcbeautifyAvailable]
            /\ epoch' = EpochCallEnd(EpochCallStart(epoch, pc = "awaitProbe", FALSE),
                                     cachedXcbeautifyAvailable, "cached")
       ELSE /\ prober' = [pc |-> "awaiting", result |-> Undefined]
            /\ epoch' = EpochCallStart(epoch, pc = "awaitProbe", TRUE)
    /\ UNCHANGED <<cachedXcbeautifyAvailable, env, renderModes, run, pc, args, loc, response, logs, calls,
                   nCalls, nResets>>

\* lines 102-107
ProberReturns ==
    /\ prober.pc = "awaiting"
    /\ \E outcome \in ProbeOutcomes :
        /\ cachedXcbeautifyAvailable' = ProbeResult(outcome)
        /\ prober' = [pc |-> "idle", result |-> ProbeResult(outcome)]
        /\ epoch' = EpochCallEnd(epoch, ProbeResult(outcome), outcome)
    /\ UNCHANGED <<env, renderModes, run, pc, args, loc, response, logs, calls, nCalls, nProbeCalls, nResets>>

\* lines 86-88
resetXcbeautifyCache ==
    /\ nResets < MaxResets
    /\ nResets' = nResets + 1
    /\ cachedXcbeautifyAvailable' = "undefined"
    /\ epoch' = FreshEpoch(pc = "awaitProbe" \/ prober.pc = "awaiting")
    /\ UNCHANGED <<env, renderModes, run, pc, args, loc, response, logs, calls, nCalls, prober, nProbeCalls>>

----------------------------------------------------------------------------
(* Spec: requests one after the other, over the full input sets.           *)

ExecuteXcodeBuildCommand ==
    ExecuteXcodeBuildCommandOn(ParamsSet, PlatformOptionsSet, BuildActions)

BuildReturns == BuildReturnsOn(Results)

Next ==
    \/ ExecuteXcodeBuildCommand
    \/ XcodemakeAvailableReturns
    \/ XcodemakeAvailableThrows
    \/ ProbeReturns
    \/ BuildReturns
    \/ BuildThrows
    \/ Settle

Spec == Init /\ [][Next]_vars

(* CacheSpec: requests running concurrently with other isXcbeautifyAvailable *)
(* callers and with resetXcbeautifyCache, over a few requests and results. *)
(* Another request reaches the shared cache only through its               *)
(* isXcbeautifyAvailable call (line 341), which the standalone caller is.  *)

CacheParamsSet == {p \in ParamsSet : p.extraArgs = <<>>}

CachePlatformOptionsSet ==
    {po \in PlatformOptionsSet : po.platform = "macOS" /\ po.quietLevel = 0}

CacheResults ==
    {r \in Results : /\ r.error = NoStderr
                     /\ r.exitCode = (IF r.success THEN 0 ELSE 1)
                     /\ r.output \in {OutputPlain, OutputMixed}}

CacheExecuteXcodeBuildCommand ==
    ExecuteXcodeBuildCommandOn(CacheParamsSet, CachePlatformOptionsSet, {"build"})

CacheBuildReturns == BuildReturnsOn(CacheResults)

CacheNext ==
    \/ CacheExecuteXcodeBuildCommand
    \/ XcodemakeAvailableReturns
    \/ XcodemakeAvailableThrows
    \/ ProbeReturns
    \/ CacheBuildReturns
    \/ BuildThrows
    \/ Settle
    \/ ProberCalls
    \/ ProberReturns
    \/ resetXcbeautifyCache

CacheSpec == Init /\ [][CacheNext]_vars

----------------------------------------------------------------------------
(* RunSpec: the build-and-run pipelines build_run_simLogic and              *)
(* buildRunMacOSLogic, each around one executeXcodeBuildCommand call.       *)

RunParamsSet == {p \in ParamsSet : p.extraArgs = <<>>}

\* simulatorId, simulatorName and useLatestOS of BuildRunSimulatorParams
RunSimulatorSelectors ==
    { [simulatorId |-> "SIM-UUID", simulatorName |-> Undefined, useLatestOS |-> Undefined],
      [simulatorId |-> Undefined, simulatorName |-> "iPhone 16", useLatestOS |-> Undefined],
      [simulatorId |-> Undefined, simulatorName |-> "iPhone 16", useLatestOS |-> "false"],
      [simulatorId |-> Undefined, simulatorName |-> Undefined, useLatestOS |-> Undefined] }

\* _handleSimulatorBuildLogic, lines 117-123: the platform options of the build
RunSimulatorPlatformOptionsSet ==
    { PlatformOptions("iOS Simulator", "iOS Simulator Build", sel.simulatorId,
                      sel.simulatorName,
                      IF Truthy(sel.simulatorId) THEN "false" ELSE sel.useLatestOS,
                      Undefined, Undefined) : sel \in RunSimulatorSelectors }

\* _handleMacOSBuildLogic, lines 102-106
RunMacOSPlatformOptionsSet ==
    { PlatformOptions("macOS", "macOS Build", Undefined, Undefined, Undefined, arch,
                      Undefined) : arch \in {Undefined, "arm64"} }

RunResults ==
    {r \in Results : /\ r.error = NoStderr
                     /\ r.exitCode = (IF r.success THEN 0 ELSE 65)
                     /\ r.output \in {OutputPlain, OutputMixed}}

\* the steps that invoke the executor, in the order of the source text
SimulatorCommands ==
    <<"showBuildSettings", "list", "boot", "open", "install", "PlistBuddy", "plutil",
      "defaults", "launch">>

BundleIdMethods == <<"PlistBuddy", "plutil", "defaults">>

Begin(r, step) ==
    [r EXCEPT !.pc = step, !.steps = Append(@, [step |-> step, outcome |-> "pending"])]

End(r, outcome) == [r EXCEPT !.steps[Len(r.steps)].outcome = outcome]

Return(r, resp) == [r EXCEPT !.pc = "returned", !.response = resp]

RunTextResponse(kind, isError) == createTextResponse(kind, <<>>, isError)

\* the variables of the executeXcodeBuildCommand call, which a pipeline step
\* after the build leaves alone
BuildUnchanged ==
    UNCHANGED <<cachedXcbeautifyAvailable, env, pc, args, loc, response, logs, calls,
                nCalls, prober, nProbeCalls, nResets, epoch, renderModes>>

\* build_run_simLogic, lines 131-150: the call, up to the first await of the build
build_run_simLogic ==
    /\ run.pc = "idle"
    /\ ExecuteXcodeBuildCommandFrom(RunParamsSet, RunSimulatorPlatformOptionsSet, {"build"})
    /\ run' = Begin([NoRun EXCEPT !.logic = "sim"], "build")

\* SimulatorBuildSettles going on to the app path whatever the build returned
SimulatorBuildSettlesIgnoringIsError ==
    /\ run.logic = "sim" /\ run.pc = "build"
    /\ pc \in {"done", "rejected"}
    /\ run' = IF pc = "rejected"
              THEN Return(End(run, "threw"), RunTextResponse("Error in iOS Simulator build and run", TRUE))
              ELSE Begin(End(run, "ok"), "showBuildSettings")
    /\ BuildUnchanged

\* lines 146-194 (a rejected build: 486-490)
SimulatorBuildSettles ==
    /\ run.logic = "sim" /\ run.pc = "build"
    /\ pc \in {"done", "rejected"}
    /\ run' = IF pc = "rejected"
              THEN Return(End(run, "threw"), RunTextResponse("Error in iOS Simulator build and run", TRUE))
              ELSE IF response.isError = "true"
              THEN Return(End(run, "failed"), response)
              ELSE Begin(End(run, "ok"), "showBuildSettings")
    /\ BuildUnchanged

\* lines 194-242: show-build-settings settles
SimulatorAppPathReturns ==
    /\ run.logic = "sim" /\ run.pc = "showBuildSettings"
    /\ \E outcome \in {"ok", "failed", "noAppPath", "threw"} :
        run' = CASE outcome = "ok" -> Begin(End(run, "ok"), "determineSimulatorUuid")
                 [] outcome = "failed" ->
                        Return(End(run, outcome),
                               RunTextResponse("Build succeeded, but failed to get app path", TRUE))
                 [] outcome = "noAppPath" ->
                        Return(End(run, outcome),
                               RunTextResponse("Build succeeded, but could not find app path", TRUE))
                 [] OTHER ->
                        Return(End(run, outcome),
                               RunTextResponse("Error in iOS Simulator build and run", TRUE))
    /\ BuildUnchanged

\* lines 239-267: determineSimulatorUuid settles
SimulatorUuidReturns ==
    /\ run.logic = "sim" /\ run.pc = "determineSimulatorUuid"
    /\ \E outcome \in {"ok", "error", "noUuid", "threw"} :
        run' = CASE outcome = "ok" -> Begin(End(run, "ok"), "list")
                 [] outcome = "error" ->
                        Return(End(run, outcome), RunTextResponse("Build succeeded, but", TRUE))
                 [] outcome = "noUuid" ->
                        Return(End(run, outcome),
                               RunTextResponse("Build succeeded, but no simulator specified", TRUE))
                 [] OTHER ->
                        Return(End(run, outcome),
                               RunTextResponse("Error in iOS Simulator build and run", TRUE))
    /\ BuildUnchanged

\* lines 264-337: the simulator list settles
SimulatorListReturns ==
    /\ run.logic = "sim" /\ run.pc = "list"
    /\ \E outcome \in {"Booted", "Shutdown", "notFound", "unparsable", "failed", "threw"} :
        run' = CASE outcome = "Shutdown" ->
                        Begin([End(run, "ok") EXCEPT !.simState = outcome], "boot")
                 [] outcome = "Booted" ->
                        Begin([End(run, "ok") EXCEPT !.simState = outcome], "open")
                 [] outcome = "notFound" ->
                        Return(End(run, outcome),
                               RunTextResponse("Build succeeded, but could not find simulator", TRUE))
                 [] OTHER ->
                        Return(End(run, outcome),
                               RunTextResponse("Build succeeded, but error checking/booting simulator", TRUE))
    /\ BuildUnchanged

\* lines 315-337: the boot command settles
SimulatorBootReturns ==
    /\ run.logic = "sim" /\ run.pc = "boot"
    /\ \E outcome \in {"ok", "failed", "threw"} :
        run' = IF outcome = "ok"
               THEN Begin(End(run, "ok"), "open")
               ELSE Return(End(run, outcome),
                           RunTextResponse("Build succeeded, but error checking/booting simulator", TRUE))
    /\ BuildUnchanged

\* SimulatorOpenReturns ending the run when the Simulator app did not open
SimulatorOpenReturnsFailing ==
    /\ run.logic = "sim" /\ run.pc = "open"
    /\ \E outcome \in {"ok", "failed", "threw"} :
        run' = IF outcome = "ok"
               THEN Begin(End(run, outcome), "install")
               ELSE Return(End(run, outcome),
                           RunTextResponse("Error in iOS Simulator build and run", TRUE))
    /\ BuildUnchanged

\* lines 337-353: the open command settles; a failure is only logged
SimulatorOpenReturns ==
    /\ run.logic = "sim" /\ run.pc = "open"
    /\ \E outcome \in {"ok", "failed", "threw"} :
        run' = Begin(End(run, outcome), "install")
    /\ BuildUnchanged

\* lines 350-384: the install command settles
SimulatorInstallReturns ==
    /\ run.logic = "sim" /\ run.pc = "install"
    /\ \E outcome \in {"ok", "failed", "threw"} :
        run' = IF outcome = "ok"
               THEN Begin(End(run, "ok"), BundleIdMethods[1])
               ELSE Return(End(run, outcome),
                           RunTextResponse("Build succeeded, but error installing app", TRUE))
    /\ BuildUnchanged

\* lines 376-442: one of the three bundle ID commands settles; "empty" is a
\* successful command whose trimmed output is the empty string
SimulatorBundleIdReturns ==
    /\ run.logic = "sim"
    /\ \E m \in 1..Len(BundleIdMethods) :
        /\ run.pc = BundleIdMethods[m]
        /\ \E outcome \in {"ok", "empty", "failed", "threw"} :
            run' = IF outcome = "ok"
                   THEN Begin([End(run, "ok") EXCEPT !.bundleId = "com.example.App"], "launch")
                   ELSE IF m < Len(BundleIdMethods)
                   THEN Begin(End(run, outcome), BundleIdMethods[m + 1])
                   ELSE Return(End(run, outcome),
                               RunTextResponse("Build and install succeeded, but error getting bundle ID", TRUE))
    /\ BuildUnchanged

\* lines 439-485: the launch command settles
SimulatorLaunchReturns ==
    /\ run.logic = "sim" /\ run.pc = "launch"
    /\ \E outcome \in {"ok", "failed", "threw"} :
        run' = IF outcome = "ok"
               THEN Return(End(run, "ok"),
                           [content |-> <<Block("iOS simulator build and run succeeded",
                                                <<<<args.params.scheme, run.bundleId>>>>)>>,
                            isError |-> "false"])
               ELSE Return(End(run, outcome),
                           RunTextResponse("Build and install succeeded, but error launching app", TRUE))
    /\ BuildUnchanged

\* buildRunMacOSLogic, lines 172-180: the call, up to the first await of the build
buildRunMacOSLogic ==
    /\ run.pc = "idle"
    /\ ExecuteXcodeBuildCommandFrom(RunParamsSet, RunMacOSPlatformOptionsSet, {"build"})
    /\ run' = Begin([NoRun EXCEPT !.logic = "mac"], "build")

\* lines 180-189 and 113-143 (a rejected build: 234-242)
MacOSBuildSettles ==
    /\ run.logic = "mac" /\ run.pc = "build"
    /\ pc \in {"done", "rejected"}
    /\ run' = IF pc = "rejected"
              THEN Return(End(run, "threw"), RunTextResponse("Error during macOS build and run", TRUE))
              ELSE IF response.isError = "true"
              THEN Return(End(run, "failed"), response)
              ELSE Begin(End(run, "ok"), "showBuildSettings")
    /\ BuildUnchanged

\* line 186: the text blocks of the build response
buildWarningMessages == response.content

\* MacOSResponse that drops the blocks of the build response
MacOSResponseWithoutBuildMessages(kind) == RunTextResponse(kind, FALSE)

\* lines 194-201, 212-219, 223-232: a block after the blocks of the build response
MacOSResponse(kind) ==
    [RunTextResponse(kind, FALSE) EXCEPT !.content = buildWarningMessages \o @]

\* lines 143-208: show-build-settings settles; _getAppPathFromBuildSettings
\* catches what the executor throws
MacOSAppPathReturns ==
    /\ run.logic = "mac" /\ run.pc = "showBuildSettings"
    /\ \E outcome \in {"ok", "failed", "noAppPath", "threw"} :
        run' = IF outcome = "ok"
               THEN Begin(End(run, "ok"), "launch")
               ELSE Return(End(run, outcome),
                           MacOSResponse("Build succeeded, but failed to get app path to launch"))
    /\ BuildUnchanged

\* lines 208-242: the launch command settles
MacOSLaunchReturns ==
    /\ run.logic = "mac" /\ run.pc = "launch"
    /\ \E outcome \in {"ok", "failed", "threw"} :
        run' = CASE outcome = "ok" ->
                        Return(End(run, "ok"), MacOSResponse("macOS build and run succeeded"))
                 [] outcome = "failed" ->
                        Return(End(run, outcome),
                               MacOSResponse("Build succeeded, but failed to launch app"))
                 [] OTHER ->
                        Return(End(run, outcome),
                               RunTextResponse("Error during macOS build and run", TRUE))
    /\ BuildUnchanged

RunBuildReturns == BuildReturnsOn(RunResults)

RunNext ==
    \/ build_run_simLogic
    \/ buildRunMacOSLogic
    \/ XcodemakeAvailableReturns
    \/ XcodemakeAvailableThrows
    \/ ProbeReturns
    \/ RunBuildReturns
    \/ BuildThrows
    \/ SimulatorBuildSettles
    \/ SimulatorAppPathReturns
    \/ SimulatorUuidReturns
    \/ SimulatorListReturns
    \/ SimulatorBootReturns
    \/ SimulatorOpenReturns
    \/ SimulatorInstallReturns
    \/ SimulatorBundleIdReturns
    \/ SimulatorLaunchReturns
    \/ MacOSBuildSettles
    \/ MacOSAppPathReturns
    \/ MacOSLaunchReturns

RunSpec == Init /\ [][RunNext]_vars

----------------------------------------------------------------------------
(* ModeSpec: requests of one process whose XCODEBUILDMCP_BUILD_OUTPUT       *)
(* setting may change at any time (process.env is mutable).                 *)

\* process.env.XCODEBUILDMCP_BUILD_OUTPUT, read at line 38, is given another value
SetBuildOutput ==
    /\ \E v \in {Undefined, "diagnostics"} :
          /\ v # env.buildOutput
          /\ env' = [env EXCEPT !.buildOutput = v]
    /\ UNCHANGED <<cachedXcbeautifyAvailable, pc, args, loc, response, logs, calls, nCalls,
                   prober, nProbeCalls, nResets, epoch, renderModes, run>>

ModeNext ==
    \/ CacheExecuteXcodeBuildCommand
    \/ XcodemakeAvailableReturns
    \/ XcodemakeAvailableThrows
    \/ ProbeReturns
    \/ CacheBuildReturns
    \/ BuildThrows
    \/ Settle
    \/ SetBuildOutput

ModeSpec == Init /\ [][ModeNext]_vars

----------------------------------------------------------------------------
(* The classifier (lines 360-377) on bounded stdout and stderr texts: one   *)
(* request in the test environment, whose build invocation returns any of   *)
(* ClassifyResults.                                                         *)

SeqsUpTo(S, n) == UNION {[1..k -> S] : k \in 1..n}

ClassifyStdoutLines ==
    { <<"a.swift", " ", "warning:", " ", "deprecated">>,
      <<" ", "a.swift", " ", "warning:", " ", "deprecated", " ">>,
      <<"b.swift", " ", "error:", " ", "undefined">>,
      <<"Compiling", " ", "a.swift">>,
      <<StderrPrefix, "b.swift", " ", "error:", " ", "undefined">>,
      <<StderrPrefix, "WARNING:", " ", "treated", " ", "as", " ", "Error:">> }

ClassifyStderrLines ==
    { <<" ", "b.swift", " ", "error:", " ", "undefined", " ">>,
      <<"WARNING:", " ", "treated", " ", "as", " ", "Error:">>,
      <<>> }

ClassifyResults ==
    { r \in [success : BOOLEAN,
             output : SeqsUpTo(ClassifyStdoutLines, MaxLines),
             error : {NoStderr} \cup SeqsUpTo(ClassifyStderrLines, MaxStderrLines),
             exitCode : {0, 65}] :
        r.exitCode = (IF r.success THEN 0 ELSE 65) }

ClassifyInit == Init /\ env = [buildOutput |-> Undefined, test |-> TRUE]

\* the request: a test action, xcodemake disabled, preferXcodebuild unset
ClassifyExecuteXcodeBuildCommand ==
    /\ ExecuteXcodeBuildCommandOn(CacheParamsSet, CachePlatformOptionsSet, {"test"})
    /\ pc' = "awaitBuild"
    /\ ~args'.preferXcodebuild
    /\ ~loc'.isXcodemakeEnabledFlag

ClassifyBuildReturns == BuildReturnsOn(ClassifyResults)

ClassifyNext ==
    \/ ClassifyExecuteXcodeBuildCommand
    \/ ClassifyBuildReturns

ClassifySpec == ClassifyInit /\ [][ClassifyNext]_vars

----------------------------------------------------------------------------
(* Command construction (lines 210-300) on every platform and selector      *)
(* combination: one request in the test environment, up to the build        *)
(* invocation.                                                              *)

CommandParamsSet ==
    [projectPath : {NoPath, <<"/path/to", "/MyProject.xcodeproj">>},
     workspacePath : {NoPath, <<"/ws", "/App.xcworkspace">>},
     scheme : {"MyScheme"}, configuration : {"Debug"},
     derivedDataPath : {NoPath, <<"/dd">>},
     extraArgs : {<<>>, <<Lit("--verbose"), Lit("-quiet")>>}]

CommandPlatformOptionsSet ==
    { PlatformOptions(platform, "Build", simulatorId, simulatorName, useLatestOS,
                      Undefined, Undefined) :
        platform \in SimulatorPlatforms, simulatorId \in {Undefined, "", "SIM-UUID"},
        simulatorName \in {Undefined, "iPhone 16"},
        useLatestOS \in {Undefined, "true", "false"} }
    \cup
    { PlatformOptions("macOS", "Build", Undefined, Undefined, useLatestOS, arch, Undefined) :
        useLatestOS \in {Undefined, "true"}, arch \in {Undefined, "arm64"} }
    \cup
    { PlatformOptions(platform, "Build", Undefined, Undefined, Undefined, Undefined, deviceId) :
        platform \in DevicePlatforms, deviceId \in {Undefined, "", "UDID"} }

CommandInit == Init /\ env = [buildOutput |-> Undefined, test |-> TRUE]

CommandExecuteXcodeBuildCommand ==
    ExecuteXcodeBuildCommandOn(CommandParamsSet, CommandPlatformOptionsSet, BuildActions)

CommandNext ==
    \/ CommandExecuteXcodeBuildCommand
    \/ XcodemakeAvailableReturns
    \/ XcodemakeAvailableThrows

CommandSpec == CommandInit /\ [][CommandNext]_vars

----------------------------------------------------------------------------
(* Properties *)

RECURSIVE CountCalls(_, _)
CountCalls(cs, whats) ==
    IF cs = <<>> THEN 0
    ELSE (IF Head(cs).what \in whats THEN 1 ELSE 0) + CountCalls(Tail(cs), whats)

Escalated == \E i \in 1..Len(logs) : logs[i].sentry = "true"

HasBlock(kind) == \E i \in 1..Len(response.content) : response.content[i].kind = kind

SomethingFailed ==
    \/ loc.outcome \in {"destination", "threw"}
    \/ loc.outcome = "returned" /\ ~loc.result.success

\* C1: every call of executeXcodeBuildCommand resolves to a well-formed
\* response (non-empty content, isError true when anything failed) and never
\* rejects, whatever the executor and the xcodemake collaborators do.
C1_NeverRejects ==
    /\ pc # "rejected"
    /\ pc = "done" => /\ Len(response.content) > 0
                      /\ SomethingFailed => response.isError = "true"

SelectorMissing(po) ==
    /\ po.platform \in SimulatorPlatforms
    /\ po.simulatorId \in {Undefined, ""}
    /\ po.simulatorName \in {Undefined, ""}

UnsupportedPlatform(po) == po.platform \notin XcodePlatform

\* C2: when destination resolution fails (simulator platform with neither
\* selector, or an unsupported platform) the call returns the matching
\* isError response, and no executor, make or xcodemake invocation and no
\* escalated log happens during the call.
C2_ResolutionFailureShortCircuits ==
    (pc # "idle" /\ (SelectorMissing(args.platformOptions)
                     \/ UnsupportedPlatform(args.platformOptions)))
    => /\ calls = <<>>
       /\ ~Escalated
       /\ pc \notin {"awaitProbe", "awaitBuild"}
       /\ pc = "done" =>
            /\ response.isError = "true"
            /\ Len(response.content) = 1
            /\ response.content[1].kind =
                 (IF SelectorMissing(args.platformOptions)
                  THEN "selectorRequired" ELSE "unsupportedPlatform")

C2_Witness ==
    /\ pc = "done"
    /\ SelectorMissing(args.platformOptions)
    /\ args.platformOptions.simulatorName = ""
    /\ loc.isXcodemakeEnabledFlag /\ loc.xcodemakeAvailableFlag
    /\ response.isError = "true"

AllFour ==
    /\ loc.isXcodemakeEnabledFlag
    /\ loc.xcodemakeAvailableFlag
    /\ args.buildAction = "build"
    /\ ~args.preferXcodebuild

\* C3: make or xcodemake is invoked only if the acceleration flag is enabled,
\* the tool is available, the action is 'build' and preferXcodebuild is false;
\* in every other combination the build goes through the injected executor
\* and neither incremental function is called.
C3_IncrementalOnlyWhenAllFour ==
    /\ CountCalls(calls, {"make", "xcodemake"}) > 0 => AllFour
    /\ (pc = "awaitBuild" \/ loc.outcome \in {"returned", "threw"}) =>
         IF AllFour
         THEN /\ CountCalls(calls, {"make", "xcodemake"}) = 1
              /\ CountCalls(calls, {"pipeline", "raw", "probe"}) = 0
         ELSE /\ CountCalls(calls, {"make", "xcodemake"}) = 0
              /\ CountCalls(calls, {"pipeline", "raw"}) = 1

C3_Witness ==
    /\ pc = "done"
    /\ loc.outcome = "returned"
    /\ loc.isXcodemakeEnabledFlag /\ loc.xcodemakeAvailableFlag
    /\ args.preferXcodebuild
    /\ CountCalls(calls, {"pipeline", "raw"}) = 1

\* C4: on the active incremental path, make is invoked once (and xcodemake
\* not) if the Makefile and its log both exist; otherwise xcodemake is invoked
\* once with the command minus its leading 'xcodebuild' (and make not).
C4_ReplayOrGenerate ==
    CountCalls(calls, {"make", "xcodemake"}) > 0 =>
        /\ Len(calls) = 1
        /\ loc.command[1] = <<"xcodebuild">>
        /\ IF loc.makefileExists /\ loc.makeLogFileExists
           THEN /\ calls[1].fn = "executeMakeCommand"
                /\ calls[1].argv = <<projectDirOf(args.params)>>
           ELSE /\ calls[1].fn = "executeXcodemakeCommand"
                /\ calls[1].argv[1] = projectDirOf(args.params)
                /\ Len(calls[1].argv) = Len(loc.command)
                /\ \A i \in 2..Len(loc.command) : calls[1].argv[i] = loc.command[i]

C4_Witness ==
    /\ pc = "done"
    /\ loc.outcome = "returned"
    /\ loc.makefileExists /\ ~loc.makeLogFileExists
    /\ calls[1].fn = "executeXcodemakeCommand"

IncrementalTaken == CountCalls(calls, {"make", "xcodemake"}) > 0

NoStdoutMarker ==
    \A i \in 1..Len(loc.result.output) :
        /\ ~HasWarningMarker(loc.result.output[i])
        /\ ~HasErrorMarker(loc.result.output[i])

NothingClassified ==
    /\ Warnings(loc.result.output) = <<>>
    /\ Errors(loc.result.output, loc.result.error) = <<>>

\* C5 as stated: in guided mode a failed build on the active incremental path
\* carries the retry suggestion exactly when the classified warnings and the
\* classified errors (stdout- and stderr-derived together) are both empty.
C5_SuggestionIffNothingClassified ==
    (pc = "done" /\ loc.outcome = "returned") =>
        (HasBlock("retrySuggestion") <=>
            /\ loc.outputMode = "guided"
            /\ ~loc.result.success
            /\ IncrementalTaken
            /\ NothingClassified)

\* C5 amended: in guided mode a failed build on the active incremental path
\* carries the retry suggestion exactly when no stdout line carries a warning
\* or error marker; stderr-derived errors do not count.  Never on the direct
\* path, on success or in diagnostics mode.
C5_SuggestionIffNoStdoutMarker ==
    (pc = "done" /\ loc.outcome = "returned") =>
        (HasBlock("retrySuggestion") <=>
            /\ loc.outputMode = "guided"
            /\ ~loc.result.success
            /\ IncrementalTaken
            /\ NoStdoutMarker)

C5_Witness ==
    /\ pc = "done"
    /\ loc.outcome = "returned"
    /\ HasBlock("retrySuggestion")
    /\ HasBlock("stderr")
    /\ IncrementalTaken

\* C6: from an empty cache, in a sequence of non-overlapping
\* isXcbeautifyAvailable calls without a reset, the executor is invoked exactly
\* once, whether the first probe succeeded, failed or threw, and every call
\* returns the first call's result.
C6_ProbeOnce ==
    (~epoch.overlap /\ epoch.calls >= 1) => (epoch.execs = 1 /\ epoch.consistent)

C6_Witness ==
    /\ ~epoch.overlap
    /\ epoch.calls >= 2
    /\ epoch.firstOutcome = "throw"
    /\ epoch.execs = 1
    /\ prober.pc = "idle" /\ pc \notin {"awaitProbe"}

\* C7 as stated: when a second isXcbeautifyAvailable call starts while the
\* first one's probe is still awaiting the executor, the probe command is
\* executed at most once in total.
C7_AtMostOneProbe == epoch.execs <= 1

\* C7 amended: a call executes the probe only if the cache is empty when the
\* call starts, and at most once; calls that overlap an unfinished probe each
\* execute their own, a call that starts once a result is cached executes none.
C7_ProbeOnlyOnEmptyCache ==
    [][epoch'.execs > epoch.execs =>
          /\ cachedXcbeautifyAvailable = "undefined"
          /\ epoch'.execs = epoch.execs + 1
          /\ epoch'.calls = epoch.calls + 1]_vars

C7_Witness ==
    /\ epoch.overlap
    /\ epoch.execs = 2
    /\ epoch.calls = 2
    /\ pc = "awaitProbe" /\ prober.pc = "awaiting"

\* C8: a build that returns success=false is logged escalated at level
\* 'error' if and only if its exit code is 64, otherwise at level 'warning'
\* and not escalated; a build that returns success=true logs nothing escalated.
C8_EscalateOnlyExit64 ==
    (pc = "done" /\ loc.outcome = "returned") =>
        IF loc.result.success
        THEN ~Escalated
        ELSE /\ Escalated <=> loc.result.exitCode = 64
             /\ logs[Len(logs)].what = "build failed"
             /\ logs[Len(logs)].level =
                    (IF loc.result.exitCode = 64 THEN "error" ELSE "warning")
             /\ logs[Len(logs)].sentry =
                    (IF loc.result.exitCode = 64 THEN "true" ELSE "false")

C8_Witness ==
    /\ pc = "done"
    /\ loc.outcome = "returned"
    /\ ~loc.result.success
    /\ loc.result.exitCode = 65
    /\ ~Escalated

\* C9: when the build invocation throws, the response is the single block
\* 'Error during <logPrefix> <action>: <message>' with isError true, and the
\* error log is escalated if and only if the thrown value is not an Error
\* with code ENOENT, EACCES or EPERM.
C9_CatchClassification ==
    (pc = "done" /\ loc.outcome = "threw") =>
        /\ response.isError = "true"
        /\ response.content =
             <<[kind |-> "errorDuring",
                arg |-> <<<<args.platformOptions.logPrefix, args.buildAction,
                            loc.thrown.message>>>>]>>
        /\ logs[Len(logs)].level = "error"
        /\ Escalated <=> ~(loc.thrown.isError
                           /\ loc.thrown.code \in {"ENOENT", "EACCES", "EPERM"})

C9_Witness ==
    /\ pc = "done"
    /\ loc.outcome = "threw"
    /\ ~loc.thrown.isError
    /\ loc.thrown.code = "ENOENT"
    /\ Escalated

\* C10: a request whose destination resolves and whose build returns performs
\* exactly one build invocation (make, xcodemake, shell pipeline or raw argv)
\* and at most one availability probe, the probe before the build: at most
\* two invocations, one after the other.
C10_OneBuildAtMostOneProbe ==
    /\ Len(calls) <= 2
    /\ CountCalls(calls, {"probe"}) <= 1
    /\ CountCalls(calls, {"make", "xcodemake", "pipeline", "raw"}) <= 1
    /\ (pc = "awaitBuild" \/ loc.outcome = "returned") =>
          /\ CountCalls(calls, {"make", "xcodemake", "pipeline", "raw"}) = 1
          /\ calls[Len(calls)].what \in {"make", "xcodemake", "pipeline", "raw"}
    /\ pc = "awaitProbe" => calls = <<ProbeCall>>

C10_Witness ==
    /\ pc = "done"
    /\ loc.outcome = "returned"
    /\ Len(calls) = 2
    /\ calls[1].what = "probe"
    /\ calls[2].what = "pipeline"

DirectBuildIssued ==
    /\ pc = "awaitBuild" \/ loc.outcome \in {"returned", "threw"}
    /\ ~IncrementalTaken

XcbeautifyArgsFor(quietLevel) ==
    IF quietLevel = 0 THEN <<"xcbeautify">>
    ELSE IF quietLevel = 1 THEN <<"xcbeautify", " ", "-q">>
    ELSE <<"xcbeautify", " ", "-qq">>

\* C11: on the direct path outside the test environment the build is one
\* executor call: with xcbeautify available, bash -lc 'set -o pipefail;
\* <quoted command> 2>&1 | <xcbeautify args of the quiet level>' with capture
\* false; otherwise the raw argv with capture true, and the install prompt in
\* the guided response.  A result with success=false gives a failure response.
C11_DirectPathInvocation ==
    (DirectBuildIssued /\ ~env.test) =>
        /\ CountCalls(calls, {"pipeline", "raw"}) = 1
        /\ IF loc.xcbeautifyAvailable
           THEN calls[Len(calls)] =
                  [fn |-> "executor", what |-> "pipeline", capture |-> FALSE,
                   argv |-> <<<<"bash">>, <<"-lc">>,
                              <<"set -o pipefail; ">> \o buildShellCommand(loc.command)
                              \o <<" 2>&1 | ">>
                              \o XcbeautifyArgsFor(args.platformOptions.quietLevel)>>]
           ELSE /\ calls[Len(calls)] =
                     [fn |-> "executor", what |-> "raw", capture |-> TRUE,
                      argv |-> loc.command]
                /\ (loc.outcome = "returned" /\ loc.outputMode = "guided")
                      => HasBlock("installPrompt")
        /\ (loc.outcome = "returned" /\ ~loc.result.success) => response.isError = "true"

C11_Witness ==
    /\ pc = "done"
    /\ loc.outcome = "returned"
    /\ ~env.test
    /\ loc.xcbeautifyAvailable
    /\ args.platformOptions.quietLevel = 2
    /\ ~loc.result.success
    /\ calls[Len(calls)].what = "pipeline"

ShowsInstallPrompt ==
    \/ HasBlock("installPrompt")
    \/ \E i \in 1..Len(response.content) :
          /\ response.content[i].kind = "diagWarnings"
          /\ SeqContains(response.content[i].arg, InstallPromptLine)

RequestStep == <<pc, loc, calls, response>>' # <<pc, loc, calls, response>>

C12_NoXcbeautifyInTestEnv ==
    (env.test /\ pc # "idle") =>
        /\ pc # "awaitProbe"
        /\ CountCalls(calls, {"probe", "pipeline"}) = 0
        /\ DirectBuildIssued =>
              calls = <<[fn |-> "executor", what |-> "raw", capture |-> TRUE,
                         argv |-> loc.command]>>
        /\ pc = "done" => ~ShowsInstallPrompt

\* C12: with the test-environment flag set no availability probe is executed,
\* the request leaves the availability cache unchanged, the direct build is
\* the raw argv with capture true, and no install prompt appears in the
\* response in either render mode, whatever the cache holds.
C12_TestEnvSuppressesXcbeautify ==
    /\ []C12_NoXcbeautifyInTestEnv
    /\ [][(env.test /\ RequestStep) =>
             cachedXcbeautifyAvailable' = cachedXcbeautifyAvailable]_vars

C12_Witness ==
    /\ pc = "done"
    /\ loc.outcome = "returned"
    /\ env.test
    /\ cachedXcbeautifyAvailable = "false"
    /\ loc.outputMode = "diagnostics"
    /\ calls[1].what = "raw"

TerminalKinds == {"succeeded", "failed"}

AdvisoryRank(kind) ==
    IF kind \in {"preferFallback", "notAvailable", "usingXcodemake"} THEN 1
    ELSE IF kind \in {"usingMake", "generatingMakefile", "installPrompt"} THEN 2
    ELSE 0

\* the guided layout; nextStepsOnly: the block after a success line must be
\* a Next Steps block
GuidedLayout(nextStepsOnly) ==
    LET c == response.content
        W == Warnings(loc.result.output)
        E == Errors(loc.result.output, loc.result.error)
        T == {i \in 1..Len(c) : c[i].kind \in TerminalKinds}
    IN  /\ Cardinality(T) = 1
        /\ LET t == CHOOSE i \in T : TRUE
               a == t - 1 - Len(W) - Len(E)
           IN  /\ a >= 0
               /\ \A i \in 1..a : AdvisoryRank(c[i].kind) > 0
               /\ \A i \in 1..a, j \in 1..a :
                     i < j => AdvisoryRank(c[i].kind) < AdvisoryRank(c[j].kind)
               /\ \A j \in 1..Len(W) : c[a + j] = [kind |-> "warning", arg |-> <<W[j]>>]
               /\ \A j \in 1..Len(E) :
                     c[a + Len(W) + j] =
                       [kind |-> IF E[j][1] = "[stderr] " THEN "stderr" ELSE "error",
                        arg |-> <<E[j]>>]
               /\ c[t].kind = (IF loc.result.success THEN "succeeded" ELSE "failed")
               /\ c[t].arg[1][3] = args.params.scheme
               /\ Len(c) <= t + 1
               /\ Len(c) = t + 1 =>
                     IF loc.result.success
                     THEN /\ c[t + 1].kind = "additionalInfo"
                          /\ nextStepsOnly => c[t + 1].arg[1][1] = "Next Steps"
                     ELSE c[t + 1].kind = "retrySuggestion"

GuidedReturned == pc = "done" /\ loc.outcome = "returned" /\ loc.outputMode = "guided"

DiagnosticsReturned ==
    pc = "done" /\ loc.outcome = "returned" /\ loc.outputMode = "diagnostics"

DiagnosticsLayout(W, E) ==
    LET c == response.content
        nE == IF E = <<>> THEN 0 ELSE 1
        nW == IF W = <<>> THEN 0 ELSE 1
    IN  /\ Len(c) = nE + nW + 1
        /\ Len(c) <= 3
        /\ E # <<>> => c[1] = [kind |-> "diagErrors", arg |-> E]
        /\ W # <<>> => c[nE + 1] = [kind |-> "diagWarnings", arg |-> W]
        /\ c[Len(c)].arg[1][3] = args.params.scheme
        /\ c[Len(c)].kind =
             (IF ~loc.result.success THEN "failed"
              ELSE IF E = <<>> /\ W = <<>> THEN "succeededNoIssues"
              ELSE "succeeded")

\* C14: in diagnostics mode the content is an 'Errors (N)' block iff N > 0,
\* then a 'Warnings (M)' block iff M > 0, then exactly one terminal line and
\* nothing else, on every path; with both rendered lists empty the terminal
\* line stands alone (on success the '(no warnings/errors)' variant).  The
\* rendered warnings list is the classified one, or that list headed by the
\* install prompt line.
C14_DiagnosticsLayout ==
    DiagnosticsReturned =>
        \E W \in { Warnings(loc.result.output),
                   <<InstallPromptLine>> \o Warnings(loc.result.output) } :
            DiagnosticsLayout(W, Errors(loc.result.output, loc.result.error))

C14_Witness ==
    /\ DiagnosticsReturned
    /\ IncrementalTaken
    /\ ~loc.result.success
    /\ Len(response.content) = 3
    /\ Len(response.content[1].arg) = 2
    /\ response.content[2].kind = "diagWarnings"

\* C15: when the response is returned the warnings list is exactly the
\* deduplicated warning-marked stdout lines and the errors list exactly the
\* deduplicated error lines: nothing between classification and rendering
\* changed them.
C15_ListsUnchangedByRendering ==
    (pc = "done" /\ loc.outcome = "returned") =>
        /\ loc.warnings = dedupeLines(SelectLines(grepWarningsAndErrors(loc.result.output),
                                                  "warning"))
        /\ loc.errors = dedupeLines(ErrorsFromStdout(loc.result.output)
                                    \o ErrorsFromStderr(loc.result.error))

NoTwoEqual(list) ==
    \A i \in 1..Len(list), j \in 1..Len(list) : i # j => list[i] # list[j]

TrimmedNonEmpty(list) ==
    \A i \in 1..Len(list) : list[i] # <<>> /\ Trim(list[i]) = list[i]

\* the stdout lines the warnings list is drawn from, in stdout order
WarningCandidates == SelectSeq(loc.result.output, HasWarningMarker)

\* the lines the errors list is drawn from: the error-marked stdout lines
\* without a warning marker, then the stderr lines with the stderr prefix
StdoutErrorCandidates ==
    SelectSeq(loc.result.output,
              LAMBDA line : HasErrorMarker(line) /\ ~HasWarningMarker(line))

StderrCandidates ==
    LET text == loc.result.error
        kept == SelectSeq([i \in 1..Len(text) |-> Trim(text[i])],
                          LAMBDA line : line # <<>>)
    IN  [i \in 1..Len(kept) |-> <<StderrPrefix>> \o kept[i]]

ErrorCandidates == StdoutErrorCandidates \o StderrCandidates

FirstSeen(cand, x) ==
    CHOOSE k \in 1..Len(cand) :
        Trim(cand[k]) = x /\ \A m \in 1..(k - 1) : Trim(cand[m]) # x

\* list holds the trimmed candidates, each once, in first-seen order
FirstSeenOrder(list, cand) ==
    /\ \A i \in 1..Len(list) : \E k \in 1..Len(cand) : Trim(cand[k]) = list[i]
    /\ \A k \in 1..Len(cand) : SeqContains(list, Trim(cand[k]))
    /\ \A i \in 1..Len(list), j \in 1..Len(list) :
          i < j => FirstSeen(cand, list[i]) < FirstSeen(cand, list[j])

Classified == pc = "done" /\ loc.outcome = "returned"

\* C16: for every stdout and stderr input the warnings list and the errors
\* list each hold no two equal entries and no empty or untrimmed entry, and
\* keep their entries in first-seen order; the lists are deduplicated one by
\* one, so one text can be in both.
C16_ListsDedupedTrimmedOrdered ==
    Classified =>
        /\ NoTwoEqual(loc.warnings) /\ NoTwoEqual(loc.errors)
        /\ TrimmedNonEmpty(loc.warnings) /\ TrimmedNonEmpty(loc.errors)
        /\ FirstSeenOrder(loc.warnings, WarningCandidates)
        /\ FirstSeenOrder(loc.errors, ErrorCandidates)

C16_Witness ==
    /\ Classified
    /\ Len(loc.warnings) = 2
    /\ Len(WarningCandidates) = 3
    /\ Len(loc.errors) = 1
    /\ SeqContains(loc.warnings, loc.errors[1])

ContainsAny(line, tokens) == \E i \in 1..Len(line) : line[i] \in tokens

BothMarkers(line) ==
    /\ ContainsAny(line, {"warning:", "WARNING:"})
    /\ ContainsAny(line, {"error:", "Error:"})

NeitherMarker(line) ==
    /\ ~ContainsAny(line, {"warning:", "WARNING:"})
    /\ ~ContainsAny(line, {"error:", "Error:"})

\* okInErrors(t): whether the errors list may hold the text t
MarkerPrecedence(okInErrors(_)) ==
    \A k \in 1..Len(loc.result.output) :
        LET line == loc.result.output[k]
            t == Trim(line)
        IN  /\ BothMarkers(line) =>
                 /\ SeqContains(loc.warnings, t)
                 /\ SeqContains(loc.errors, t) => okInErrors(t)
            /\ NeitherMarker(line) =>
                 /\ ~SeqContains(loc.warnings, t)
                 /\ SeqContains(loc.errors, t) => okInErrors(t)

NeverInErrors(t) == FALSE

OnlyFromStderr(t) == SeqContains(StderrCandidates, t)

\* C17 as stated: a stdout line with both a warning marker and an error
\* marker (in any case) is in the warnings list and never in the errors list;
\* a stdout line with neither marker is in neither list.
C17_BothMarkersNeverInErrors == Classified => MarkerPrecedence(NeverInErrors)

\* C17 amended: such a line is in the warnings list and contributes no entry
\* to the errors list, and a line with neither marker contributes to neither
\* list; the errors list holds the text of such a line only when a stderr
\* line yields that text with the stderr prefix.
C17_BothMarkersWarningOnly == Classified => MarkerPrecedence(OnlyFromStderr)

C17_Witness ==
    /\ Classified
    /\ \E k \in 1..Len(loc.result.output) :
          /\ BothMarkers(loc.result.output[k])
          /\ ContainsAny(loc.result.output[k], {"WARNING:"})
    /\ \E k \in 1..Len(loc.result.output) : NeitherMarker(loc.result.output[k])
    /\ Len(loc.warnings) = 1
    /\ Len(loc.errors) = 2

FromStdoutErrors(entry) ==
    \E k \in 1..Len(StdoutErrorCandidates) : Trim(StdoutErrorCandidates[k]) = entry

FromStderr(entry) == SeqContains(StderrCandidates, entry)

\* C18: the errors list is the stdout-derived error lines first, then the
\* stderr-derived lines; every non-empty trimmed stderr line is in it exactly
\* once as '[stderr] <line>', whether the build succeeded or not and whether
\* the line has a warning marker or not; the warnings list takes its entries
\* from stdout alone.
C18_StderrLinesAreErrors ==
    Classified =>
        /\ \A i \in 1..Len(loc.errors) :
              FromStdoutErrors(loc.errors[i]) \/ FromStderr(loc.errors[i])
        /\ \A i \in 1..Len(loc.errors), j \in 1..Len(loc.errors) :
              (i < j /\ FromStdoutErrors(loc.errors[j])) => FromStdoutErrors(loc.errors[i])
        /\ \A i \in 1..Len(loc.errors), j \in 1..Len(loc.errors) :
              (i < j /\ ~FromStdoutErrors(loc.errors[i]) /\ ~FromStdoutErrors(loc.errors[j]))
                  => FirstSeen(StderrCandidates, loc.errors[i])
                       < FirstSeen(StderrCandidates, loc.errors[j])
        /\ loc.result.error # NoStderr =>
              \A k \in 1..Len(loc.result.error) :
                  LET line == Trim(loc.result.error[k])
                  IN  line # <<>> =>
                        Cardinality({i \in 1..Len(loc.errors) :
                                        loc.errors[i] = <<"[stderr] ">> \o line}) = 1
        /\ \A i \in 1..Len(loc.warnings) :
              \E k \in 1..Len(loc.result.output) :
                  /\ ContainsAny(loc.result.output[k], {"warning:", "WARNING:"})
                  /\ Trim(loc.result.output[k]) = loc.warnings[i]

C18_Witness ==
    /\ Classified
    /\ loc.result.success
    /\ loc.warnings = <<>>
    /\ Len(StdoutErrorCandidates) = 1
    /\ Len(loc.errors) = 3
    /\ ~FromStdoutErrors(loc.errors[2])
    /\ ContainsAny(loc.errors[2], {"WARNING:"})

CommandBuilt == pc = "awaitBuild"

\* C19: the toolchain argv is, in this order: xcodebuild; -workspace W if the
\* workspace path is set, otherwise -project P if the project path is set;
\* -scheme S; -configuration C; -skipMacroValidation; -destination D;
\* -derivedDataPath X only if set; the extraArgs elements as given; and the
\* action last.
C19_ArgvOrder ==
    CommandBuilt =>
        LET c == loc.command
            p == args.params
            o == IF p.workspacePath # <<>> \/ p.projectPath # <<>> THEN 3 ELSE 1
            d == IF p.derivedDataPath # <<>> THEN 2 ELSE 0
            x == Len(p.extraArgs)
        IN  /\ Len(c) = o + 7 + d + x + 1
            /\ c[1] = <<"xcodebuild">>
            /\ p.workspacePath # <<>> => c[2] = <<"-workspace">> /\ c[3] = p.workspacePath
            /\ (p.workspacePath = <<>> /\ p.projectPath # <<>>) =>
                   c[2] = <<"-project">> /\ c[3] = p.projectPath
            /\ c[o + 1] = <<"-scheme">> /\ c[o + 2] = <<p.scheme>>
            /\ c[o + 3] = <<"-configuration">> /\ c[o + 4] = <<p.configuration>>
            /\ c[o + 5] = <<"-skipMacroValidation">>
            /\ c[o + 6] = <<"-destination">>
            /\ c[o + 7][1] \in {"platform=", "generic/platform="}
            /\ d = 2 => c[o + 8] = <<"-derivedDataPath">> /\ c[o + 9] = p.derivedDataPath
            /\ \A i \in 1..x : c[o + 7 + d + i] = p.extraArgs[i]
            /\ c[Len(c)] = <<args.buildAction>>
            /\ calls[Len(calls)].what = "raw" => calls[Len(calls)].argv = c

C19_Witness ==
    /\ CommandBuilt
    /\ args.params.workspacePath # <<>> /\ args.params.projectPath # <<>>
    /\ args.params.derivedDataPath # <<>>
    /\ Len(args.params.extraArgs) = 2
    /\ args.buildAction = "test"
    /\ Len(loc.command) = 15
    /\ calls[Len(calls)].what = "raw"

\* the destination token of the argv: the element after -destination
DestinationToken ==
    LET i == CHOOSE k \in 1..Len(loc.command) : loc.command[k] = <<"-destination">>
    IN  loc.command[i + 1]

Given(v) == v \notin {"<undefined>", ""}

\* C20: the destination token is: simulator platform with simulatorId ->
\* platform=<P>,id=<id>, without OS clause and whatever the name is;
\* simulator platform with only simulatorName -> platform=<P>,name=<name>,
\* plus ,OS=latest exactly when useLatestOS is true or unset; macOS ->
\* platform=macOS, plus ,arch=<arch> exactly when arch is set, never a
\* version clause; iOS, watchOS, tvOS, visionOS -> platform=<P>,id=<deviceId>
\* when deviceId is set, otherwise generic/platform=<P>.
C20_DestinationToken ==
    CommandBuilt =>
        LET po == args.platformOptions
            P == po.platform
            isSim == P \in {"iOS Simulator", "watchOS Simulator", "tvOS Simulator",
                            "visionOS Simulator"}
        IN  DestinationToken =
              (IF isSim /\ Given(po.simulatorId)
               THEN <<"platform=", P, ",id=", po.simulatorId>>
               ELSE IF isSim
               THEN <<"platform=", P, ",name=", po.simulatorName>>
                    \o (IF po.useLatestOS \in {"true", "<undefined>"}
                        THEN <<",OS=latest">> ELSE <<>>)
               ELSE IF P = "macOS"
               THEN <<"platform=", "macOS">>
                    \o (IF Given(po.arch) THEN <<",arch=", po.arch>> ELSE <<>>)
               ELSE IF Given(po.deviceId)
               THEN <<"platform=", P, ",id=", po.deviceId>>
               ELSE <<"generic/platform=", P>>)

C20_Witness ==
    /\ CommandBuilt
    /\ args.platformOptions.platform = "tvOS Simulator"
    /\ args.platformOptions.simulatorId = ""
    /\ args.platformOptions.useLatestOS = "false"
    /\ DestinationToken = <<"platform=", "tvOS Simulator", ",name=", "iPhone 16">>

NextStepsBlocks ==
    {i \in 1..Len(response.content) :
        /\ response.content[i].kind = "additionalInfo"
        /\ response.content[i].arg[1][1] = "Next Steps"}

\* C21: in guided mode, after a successful build for a simulator platform,
\* Next Steps names the scheme and the selector that was put into the
\* destination token: the same kind (simulatorId or simulatorName) and the
\* same value, for every combination of the two selectors; Next Steps is
\* emitted only on success, only for the build action and only in guided mode.
C21_NextStepsEchoSelector ==
    pc = "done" =>
        /\ NextStepsBlocks # {} =>
              /\ loc.outcome = "returned" /\ loc.result.success
              /\ args.buildAction = "build"
              /\ loc.outputMode = "guided"
        /\ (GuidedReturned /\ loc.result.success /\ args.buildAction = "build"
              /\ args.platformOptions.platform \in SimulatorPlatforms) =>
              \E i \in NextStepsBlocks :
                  LET text == response.content[i].arg[1]
                  IN  /\ text[Len(text)] = args.params.scheme
                      /\ text[3] = (IF DestinationToken[3] = ",id=" THEN "simulatorId"
                                    ELSE "simulatorName")
                      /\ text[4] = DestinationToken[4]

CountBlocks(kind) ==
    Cardinality({i \in 1..Len(response.content) : response.content[i].kind = kind})

\* the fallback cases of lines 179-197 and the advisory of each
FallbackAdvisory ==
    IF loc.xcodemakeAvailableFlag THEN "preferFallback" ELSE "notAvailable"

FallbackCase ==
    /\ pc = "done"
    /\ loc.isXcodemakeEnabledFlag
    /\ args.buildAction = "build"
    /\ ~loc.xcodemakeAvailableFlag \/ args.preferXcodebuild

\* C22 as stated: with acceleration enabled and the build action, when the
\* tool is unavailable, or available with preferXcodebuild true, the request
\* runs on the direct path and its response holds the matching fallback
\* advisory exactly once.
C22_FallbackAdvisoryInResponse ==
    FallbackCase =>
        /\ ~IncrementalTaken
        /\ CountBlocks(FallbackAdvisory) = 1

\* C22 amended: such a request never runs on the incremental path; the
\* advisory is logged once, and the response holds it, exactly once, when the
\* mode is guided and the build invocation returned; in diagnostics mode, and
\* when destination resolution failed or the invocation threw, the response
\* does not hold it.
C22_FallbackAdvisoryGuidedOnly ==
    FallbackCase =>
        /\ ~IncrementalTaken
        /\ Cardinality({i \in 1..Len(logs) : logs[i].what = FallbackAdvisory}) = 1
        /\ CountBlocks(FallbackAdvisory) = (IF GuidedReturned THEN 1 ELSE 0)
        /\ CountBlocks("preferFallback") + CountBlocks("notAvailable")
             + CountBlocks("usingXcodemake") = CountBlocks(FallbackAdvisory)

C22_Witness ==
    /\ FallbackCase
    /\ GuidedReturned
    /\ loc.xcodemakeAvailableFlag /\ args.preferXcodebuild
    /\ response.content[1].kind = "preferFallback"
    /\ CountCalls(calls, {"pipeline"}) = 1

\* C23 as stated: the render mode is selected once per process: all the
\* requests of one process use the same mode, even if the setting changes
\* between two requests or while a request awaits its build.
C23_OneModePerProcess == Cardinality(renderModes) <= 1

ConfiguredMode == IF env.buildOutput = "diagnostics" THEN "diagnostics" ELSE "guided"

RenderedAsSelected ==
    /\ GuidedReturned => GuidedLayout(FALSE)
    /\ DiagnosticsReturned =>
          /\ \A i \in 1..Len(response.content) :
                response.content[i].kind \in {"diagErrors", "diagWarnings", "succeeded",
                                              "succeededNoIssues", "failed"}
          /\ Len(response.content) <= 3

\* C23 amended: the render mode is selected once per call, from the setting
\* as it is when the call starts (guided unless it equals 'diagnostics'); the
\* response of the call is rendered in that mode even if the setting changes
\* while the call awaits its build; two requests of one process use different
\* modes when the setting changed between them.
C23_OneModePerCall ==
    /\ []RenderedAsSelected
    /\ [][(pc = "idle" /\ pc' # "idle") => loc'.outputMode = ConfiguredMode]_vars
    /\ [][(pc # "idle" /\ pc' # "idle") => loc'.outputMode = loc.outputMode]_vars

C23_Witness ==
    /\ DiagnosticsReturned
    /\ env.buildOutput = Undefined
    /\ nCalls = 1
    /\ HasBlock("diagErrors")

ListsClassifiedErrors ==
    \A j \in 1..Len(loc.errors) :
        \E i \in 1..Len(response.content) :
            \/ response.content[i].arg = <<loc.errors[j]>>
            \/ /\ response.content[i].kind = "diagErrors"
               /\ SeqContains(response.content[i].arg, loc.errors[j])

\* C24: for a request that resolved its destination and in which nothing
\* threw, the failure flag of the response is true iff the build invocation
\* reported success = false, whatever the exit code, the render mode, the
\* path and the classified lines; a successful run whose output has error
\* lines is a success response that lists them.
C24_FlagFollowsSuccess ==
    (pc = "done" /\ loc.outcome = "returned") =>
        /\ response.isError = "true" <=> ~loc.result.success
        /\ loc.result.success =>
              /\ HasBlock("succeeded") \/ HasBlock("succeededNoIssues")
              /\ ~HasBlock("failed")
              /\ ListsClassifiedErrors
        /\ ~loc.result.success => HasBlock("failed") /\ ~HasBlock("succeeded")

C24_Witness ==
    /\ pc = "done" /\ loc.outcome = "returned"
    /\ loc.result.success
    /\ loc.result.exitCode = 65
    /\ IncrementalTaken
    /\ Len(loc.errors) = 2
    /\ HasBlock("succeeded")
    /\ response.isError # "true"

BuildStepFailed == pc = "done" /\ response.isError = "true" /\ run.pc # "build"

ExecutorSteps(r) == SelectSeq(r.steps, LAMBDA st : st.step \in {SimulatorCommands[i] : i \in 1..Len(SimulatorCommands)})

\* C25: in both build-and-run pipelines, when the response of the build step
\* has isError true, the pipeline returns that very response and starts no
\* further step: no show-build-settings, list, boot, open, install, bundle-ID
\* or launch command is issued after a failed build.
C25_FailedBuildReturnedUnchanged ==
    BuildStepFailed =>
        /\ run.pc = "returned"
        /\ run.response = response
        /\ Len(run.steps) = 1
        /\ ExecutorSteps(run) = <<>>

C25_Witness ==
    /\ BuildStepFailed
    /\ run.logic = "sim"
    /\ loc.outcome = "returned"
    /\ Len(response.content) > 1
    /\ run.response = response

StepOrder ==
    <<"build", "showBuildSettings", "determineSimulatorUuid", "list", "boot", "open",
      "install", "PlistBuddy", "plutil", "defaults", "launch">>

StepRank(step) == CHOOSE i \in 1..Len(StepOrder) : StepOrder[i] = step

IsBundleIdMethod(step) == \E m \in 1..Len(BundleIdMethods) : BundleIdMethods[m] = step

\* the step that must have come immediately before cur
Follows(prev, cur) ==
    CASE cur = "boot" -> prev = "list" /\ run.simState # "Booted"
      [] cur = "open" -> prev = "boot" \/ (prev = "list" /\ run.simState = "Booted")
      [] cur = "launch" -> IsBundleIdMethod(prev)
      [] OTHER -> StepRank(prev) = StepRank(cur) - 1

SimulatorRun == run.logic = "sim" /\ run.pc # "idle"

LastStep == run.steps[Len(run.steps)]

\* C26: build_run_simLogic starts its steps in the order build,
\* show-build-settings, UUID resolution, list, boot (only if the simulator is
\* not Booted), open, install, bundle-ID extraction, launch, each only after
\* the one before has settled; a step other than open that fails or throws
\* ends the run with isError true and nothing after it is started, a failed
\* open never ends the run, and the success response is returned only after
\* the launch succeeded with a non-empty bundle ID.
C26_SimulatorStepOrder ==
    SimulatorRun =>
        /\ run.steps[1].step = "build"
        /\ \A i \in 2..Len(run.steps) :
              /\ Follows(run.steps[i - 1].step, run.steps[i].step)
              /\ run.steps[i - 1].outcome # "pending"
              /\ \/ run.steps[i - 1].outcome = "ok"
                 \/ run.steps[i - 1].step = "open"
                 \/ IsBundleIdMethod(run.steps[i - 1].step)
                       /\ IsBundleIdMethod(run.steps[i].step)
        /\ (LastStep.outcome = "pending") <=> (run.pc # "returned")
        /\ run.pc # "returned" => run.pc = LastStep.step /\ run.response = NoResponse
        /\ run.pc = "returned" =>
              /\ LastStep.step # "open"
              /\ LastStep.outcome # "ok" => run.response.isError = "true"
              /\ run.response.isError # "true" =>
                    /\ LastStep = [step |-> "launch", outcome |-> "ok"]
                    /\ run.bundleId # ""
                    /\ run.response.isError = "false"

C26_Witness ==
    /\ SimulatorRun
    /\ run.pc = "returned"
    /\ run.response.isError = "false"
    /\ \E i \in 1..Len(run.steps) : run.steps[i] = [step |-> "boot", outcome |-> "ok"]
    /\ \E i \in 1..Len(run.steps) : run.steps[i] = [step |-> "open", outcome |-> "threw"]
    /\ \E i \in 1..Len(run.steps) : run.steps[i] = [step |-> "plutil", outcome |-> "empty"]
    /\ \E i \in 1..Len(run.steps) : run.steps[i] = [step |-> "defaults", outcome |-> "ok"]

MacOSReturned == run.logic = "mac" /\ run.pc = "returned"

BuildSucceededBut ==
    {"Build succeeded, but failed to get app path to launch",
     "Build succeeded, but failed to launch app"}

\* the build succeeded, and then the app path or the launch failed
MacOSLaterStepFailed ==
    /\ MacOSReturned
    /\ run.steps[1].outcome = "ok"
    /\ \/ LastStep.step = "showBuildSettings"
       \/ LastStep = [step |-> "launch", outcome |-> "failed"]

\* C27: buildRunMacOSLogic returns isError true only when the build step
\* failed or an exception escaped; when the build succeeded but getting the
\* app path or launching the app failed, the response has isError false, is
\* the text blocks of the build response in their order followed by one
\* 'Build succeeded, but failed to ...' block; the launch command is issued
\* only after the app path was obtained.
C27_MacOSPartialFailure ==
    /\ MacOSReturned =>
          (run.response.isError = "true") <=>
              \/ run.steps[1].outcome \in {"failed", "threw"}
              \/ LastStep = [step |-> "launch", outcome |-> "threw"]
    /\ MacOSLaterStepFailed =>
          /\ run.response.isError = "false"
          /\ Len(run.response.content) = Len(response.content) + 1
          /\ SubSeq(run.response.content, 1, Len(response.content)) = response.content
          /\ run.response.content[Len(run.response.content)].kind \in BuildSucceededBut
          /\ \A i \in 1..Len(response.content) :
                response.content[i].kind \notin BuildSucceededBut
    /\ run.logic = "mac" =>
          \A i \in 1..Len(run.steps) :
              run.steps[i].step = "launch" =>
                  /\ i = 3
                  /\ run.steps[2] = [step |-> "showBuildSettings", outcome |-> "ok"]

C27_Witness ==
    /\ MacOSLaterStepFailed
    /\ LastStep.step = "launch"
    /\ Len(response.content) >= 3
    /\ response.isError = Undefined
    /\ run.response.isError = "false"

\* C28: after resetXcbeautifyCache the cache stays empty until a probe that
\* started after the reset completes (a probe that was awaiting the executor
\* when the reset happened does not fill it), and the first
\* isXcbeautifyAvailable call that starts after a reset invokes the executor.
C28_ResetIsolatesProbes ==
    /\ [][(cachedXcbeautifyAvailable = "undefined" /\ cachedXcbeautifyAvailable' # "undefined")
             => epoch.execs >= 1]_vars
    /\ [][(epoch.calls = 0 /\ epoch'.calls = 1) => epoch'.execs = 1]_vars

OwnCheckUnavailable ==
    /\ DirectBuildIssued
    /\ loc.shouldUseXcbeautify
    /\ ~loc.xcbeautifyAvailable

\* C29: the response of a request shows the xcbeautify install prompt exactly
\* when that request took the direct path outside the test environment and its
\* own availability check returned unavailable, in guided mode as an advisory
\* block and in diagnostics mode as the first Warnings entry, whatever earlier
\* and concurrent requests and cache resets did; a request on the incremental
\* path or through the xcbeautify pipeline never shows it.
C29_PromptIffOwnCheckUnavailable ==
    (pc = "done" /\ loc.outcome = "returned") =>
        /\ ShowsInstallPrompt <=> OwnCheckUnavailable
        /\ (ShowsInstallPrompt /\ loc.outputMode = "guided") => HasBlock("installPrompt")
        /\ (ShowsInstallPrompt /\ loc.outputMode = "diagnostics") =>
              \E i \in 1..Len(response.content) :
                  /\ response.content[i].kind = "diagWarnings"
                  /\ response.content[i].arg[1] = InstallPromptLine

HasNextSteps(po) == po.platform \in {"macOS", "iOS"} \/ isSimulatorPlatform(po)

IncrementalBuildSucceeded ==
    /\ GuidedReturned
    /\ loc.result.success
    /\ args.buildAction = "build"
    /\ IncrementalTaken

\* C30: in guided mode every successful 'build' that ran on the incremental
\* path has, right after the terminal success line, a block holding the note
\* 'xcodemake: Using faster incremental builds with xcodemake', for every
\* platform, together with the platform's Next Steps text where one exists.
C30_XcodemakeNoteWithNextSteps ==
    IncrementalBuildSucceeded =>
        \E i \in 1..(Len(response.content) - 1) :
            /\ response.content[i].kind = "succeeded"
            /\ response.content[i + 1].kind = "additionalInfo"
            /\ SeqContains(response.content[i + 1].arg[1], XcodemakeNote[1])
            /\ HasNextSteps(args.platformOptions) =>
                  SeqContains(response.content[i + 1].arg[1], "Next Steps")

====
